---- MODULE Spec2Model ----
(***************************************************************************)
(* A model of the CSV enrichment pipeline of hyperclean-csv-haven          *)
(* (src/src/utils/csvProcessing.ts, src/src/utils/auth.ts and the task     *)
(* handling of src/src/pages/Dashboard.tsx).                               *)
(*                                                                         *)
(* JavaScript strings are modelled as sequences of one-character strings,  *)
(* so that trimming, case folding, splitting and the regular expressions   *)
(* of the normalisers are computed and not assumed.  Two characters        *)
(* outside ASCII are written as the tokens "REG" (U+00AE) and "TM"         *)
(* (U+2122).  A CSVRow is a function from column names to such strings;    *)
(* a missing key reads as undefined, which every use in the code treats    *)
(* like the empty string unless it tests for undefined explicitly.         *)
(***************************************************************************)
EXTENDS Integers, Sequences, FiniteSets, TLC

\* ------------------------------------------------------------------------
\* String primitives (String.prototype.*)
\* ------------------------------------------------------------------------
UpperLetters == <<"A","B","C","D","E","F","G","H","I","J","K","L","M",
                  "N","O","P","Q","R","S","T","U","V","W","X","Y","Z">>
LowerLetters == <<"a","b","c","d","e","f","g","h","i","j","k","l","m",
                  "n","o","p","q","r","s","t","u","v","w","x","y","z">>
Digits == {"0","1","2","3","4","5","6","7","8","9"}

IsUpper(c) == \E i \in DOMAIN UpperLetters : UpperLetters[i] = c
IsLower(c) == \E i \in DOMAIN LowerLetters : LowerLetters[i] = c
\* [a-z] under the /i flag
IsLetter(c) == IsUpper(c) \/ IsLower(c)
\* \s
IsSpace(c) == c \in {" ", "\t"}

toLowerCase(s) ==
  [i \in 1..Len(s) |->
     IF IsUpper(s[i])
       THEN LowerLetters[CHOOSE k \in DOMAIN UpperLetters : UpperLetters[k] = s[i]]
       ELSE s[i]]

RECURSIVE trimStart(_)
trimStart(s) == IF s # <<>> /\ IsSpace(Head(s)) THEN trimStart(Tail(s)) ELSE s
RECURSIVE trimEnd(_)
trimEnd(s) ==
  IF s # <<>> /\ IsSpace(s[Len(s)]) THEN trimEnd(SubSeq(s, 1, Len(s) - 1)) ELSE s
trim(s) == trimEnd(trimStart(s))

\* s.includes(c) for a one-character needle
includes(s, c) == \E i \in 1..Len(s) : s[i] = c
\* index of the first c at or after position from, 0 when there is none
indexOfFrom(s, c, from) ==
  IF \E i \in from..Len(s) : s[i] = c
    THEN CHOOSE i \in from..Len(s) : s[i] = c /\ \A j \in from..(i - 1) : s[j] # c
    ELSE 0
\* s.slice(k) in 1-based positions: the characters from position k on
sliceFrom(s, k) == SubSeq(s, k, Len(s))

\* s.split(c) for a one-character separator
RECURSIVE split(_, _)
split(s, c) ==
  LET k == indexOfFrom(s, c, 1)
  IN  IF k = 0 THEN <<s>>
      ELSE <<SubSeq(s, 1, k - 1)>> \o split(sliceFrom(s, k + 1), c)

endsWith(s, p) == Len(s) >= Len(p) /\ SubSeq(s, Len(s) - Len(p) + 1, Len(s)) = p
\* case-insensitive match of the lower-case literal p at position k of s
matchesAtCI(s, k, p) ==
  k >= 1 /\ k + Len(p) - 1 <= Len(s)
  /\ toLowerCase(SubSeq(s, k, k + Len(p) - 1)) = p
dropEnd(s, n) == SubSeq(s, 1, Len(s) - n)

\* a value read from a row that the code tests for truthiness: undefined and
\* '' are both falsy
Truthy(s) == s # <<>>

\* ------------------------------------------------------------------------
\* Rows
\* ------------------------------------------------------------------------
\* row[key] || '' : undefined reads as the empty string
Get(row, key) == IF key \in DOMAIN row THEN row[key] ELSE <<>>
\* row[key] = value, adding the key when the row does not have it
Put(row, key, value) ==
  [k \in DOMAIN row \cup {key} |-> IF k = key THEN value ELSE row[k]]
\* Object.values(row).filter(v => v && v.trim() !== '').length
nonEmptyValues(row) ==
  Cardinality({k \in DOMAIN row : Truthy(row[k]) /\ trim(row[k]) # <<>>})

\* ------------------------------------------------------------------------
\* auth.ts
\* ------------------------------------------------------------------------
genericPrefixes ==
  { <<"i","n","f","o">>, <<"c","o","n","t","a","c","t">>, <<"h","e","l","l","o">>,
    <<"s","u","p","p","o","r","t">>, <<"a","d","m","i","n">>, <<"s","a","l","e","s">>,
    <<"m","a","r","k","e","t","i","n","g">>, <<"h","e","l","p">>,
    <<"s","e","r","v","i","c","e">> }

\* email.split('@')[0].toLowerCase() is in the roster
isGenericEmail(email) == toLowerCase(split(email, "@")[1]) \in genericPrefixes

\* email.split('@')[1]; undefined (no '@') reads as the empty string
emailDomainPart(email) ==
  LET parts == split(email, "@") IN IF Len(parts) >= 2 THEN parts[2] ELSE <<>>

\* ------------------------------------------------------------------------
\* cleanWebsiteUrl
\* ------------------------------------------------------------------------
\* length of the (?:https?:\/\/)? prefix matched at position p, 0 when none
protocolLenAt(url, p) ==
  IF matchesAtCI(url, p, <<"h","t","t","p","s",":","/","/">>) THEN 8
  ELSE IF matchesAtCI(url, p, <<"h","t","t","p",":","/","/">>) THEN 7
  ELSE 0
\* length of the (?:www\.)? prefix matched at position p, 0 when none
wwwLenAt(url, p) == IF matchesAtCI(url, p, <<"w","w","w",".">>) THEN 4 ELSE 0

\* last position of the run of non-'/' characters that starts at s
segmentEnd(url, s) ==
  LET k == indexOfFrom(url, "/", s) IN IF k = 0 THEN Len(url) ELSE k - 1

\* ([^\/]+\.[a-z]+)(?:\/|$) with the group starting at s: the group runs to the
\* end of the '/'-free segment, whose last '.' is not first and is followed
\* by letters only
tldGroupAt(url, s) ==
  LET e == segmentEnd(url, s)
  IN  s <= e
      /\ \E j \in (s + 1)..(e - 1) :
           url[j] = "." /\ \A k \in (j + 1)..e : IsLetter(url[k])

\* ([^\/]+) with the group starting at s
anyGroupAt(url, s) == s <= segmentEnd(url, s)

\* the starts the engine tries for the capture group of a match beginning at
\* p, in backtracking order: both optional prefixes, protocol only, www only,
\* none; a is the length of the protocol matched at p
groupStartsAfter(url, p, a) ==
  (IF a > 0 /\ wwwLenAt(url, p + a) > 0 THEN <<p + a + 4>> ELSE <<>>)
  \o (IF a > 0 THEN <<p + a>> ELSE <<>>)
  \o (IF wwwLenAt(url, p) > 0 THEN <<p + 4>> ELSE <<>>)
  \o <<p>>
groupStartsAt(url, p) == groupStartsAfter(url, p, protocolLenAt(url, p))

\* whether the capture group can start at s: with tld the group is
\* ([^\/]+\.[a-z]+)(?:\/|$), without it ([^\/]+)
groupAt(url, s, tld) == IF tld THEN tldGroupAt(url, s) ELSE anyGroupAt(url, s)

\* the first of the starts at which the group matches, 0 when none does
firstGroupStart(url, starts, tld) ==
  LET good == {n \in DOMAIN starts : groupAt(url, starts[n], tld)}
  IN  IF good = {} THEN 0 ELSE starts[CHOOSE n \in good : \A m \in good : n <= m]

\* the first non-zero entry of a sequence of numbers, 0 when there is none
firstNonZero(seq) ==
  LET hits == {p \in DOMAIN seq : seq[p] # 0}
  IN  IF hits = {} THEN 0 ELSE seq[CHOOSE p \in hits : \A q \in hits : p <= q]

\* the capture group that starts at s; <<>> stands for no match
captureFrom(url, s) == IF s = 0 THEN <<>> ELSE SubSeq(url, s, segmentEnd(url, s))

\* the capture group of the leftmost match of the pattern in url
regexCapture(url, tld) ==
  captureFrom(url,
    firstNonZero([p \in 1..Len(url) |-> firstGroupStart(url, groupStartsAt(url, p), tld)]))

\* url.match(/(?:https?:\/\/)?(?:www\.)?([^\/]+\.[a-z]+)(?:\/|$)/i)[1]
domainMatch(url) == regexCapture(url, TRUE)

\* url.match(/(?:https?:\/\/)?(?:www\.)?([^\/]+)/i)[1] of the catch branch
looseMatch(url) == regexCapture(url, FALSE)

\* The host parser of new URL(): characters that end the authority, and the
\* forbidden host code points among the characters the model uses
AuthorityEnd == {"/", "?", "#"}
ForbiddenHostChars == {" ", "<", ">", "|", "(", ")", "&", "'", ",", "REG", "TM"}

\* the part of s before the first character of the set, s when there is none
beforeFirstOf(s, set) ==
  LET at == {i \in 1..Len(s) : s[i] \in set}
  IN  IF at = {} THEN s ELSE SubSeq(s, 1, (CHOOSE i \in at : \A j \in at : i <= j) - 1)
\* the part of s after the last c, s when there is none
afterLast(s, c) ==
  LET at == {i \in 1..Len(s) : s[i] = c}
  IN  IF at = {} THEN s ELSE sliceFrom(s, (CHOOSE i \in at : \A j \in at : i >= j) + 1)

\* the url without its scheme
afterProtocol(u) == sliceFrom(u, protocolLenAt(u, 1) + 1)

\* the host of a url that starts with http:// or https://: the authority
\* without user info and port
hostOf(url) ==
  beforeFirstOf(afterLast(beforeFirstOf(afterProtocol(trim(url)), AuthorityEnd), "@"), {":"})

hostnameResult(host) ==
  IF host = <<>> \/ \E i \in 1..Len(host) : host[i] \in ForbiddenHostChars
    THEN [throws |-> TRUE, hostname |-> <<>>]
    ELSE [throws |-> FALSE, hostname |-> toLowerCase(host)]

\* new URL(url).hostname; the record says whether the constructor throws
urlHostname(url) == hostnameResult(hostOf(url))

\* .replace(/^www\./i, '')
stripLeadingWww(s) == IF wwwLenAt(s, 1) > 0 THEN sliceFrom(s, 5) ELSE s
\* .replace(/\/$/, '')
stripTrailingSlash(s) == IF endsWith(s, <<"/">>) THEN dropEnd(s, 1) ELSE s

\* if (!url.match(/^https?:\/\//i)) url = 'https://' + url
withProtocol(url) ==
  IF protocolLenAt(url, 1) = 0 THEN <<"h","t","t","p","s",":","/","/">> \o url ELSE url

\* the catch branch: match ? match[1]... : url.toLowerCase()
cleanLoose(url, match) ==
  IF match # <<>> THEN toLowerCase(stripTrailingSlash(match)) ELSE toLowerCase(url)

\* the try branch after the prefix was added
cleanParsed(url, parsed) ==
  IF ~parsed.throws
    THEN toLowerCase(stripTrailingSlash(stripLeadingWww(parsed.hostname)))
    ELSE cleanLoose(url, looseMatch(url))

cleanViaURL(url) == cleanParsed(url, urlHostname(url))

cleanMatched(url, match) ==
  IF match # <<>> THEN toLowerCase(match) ELSE cleanViaURL(withProtocol(url))

cleanWebsiteUrl(url) ==
  IF ~Truthy(url) THEN <<>> ELSE cleanMatched(url, domainMatch(url))

\* ------------------------------------------------------------------------
\* cleanCompanyName
\* ------------------------------------------------------------------------
\* .replace(/\s*\([^)]*\)\s*/g, ' ')
RECURSIVE removeBrackets(_)
removeBrackets(s) ==
  LET open == indexOfFrom(s, "(", 1)
      close == IF open = 0 THEN 0 ELSE indexOfFrom(s, ")", open + 1)
  IN  IF close = 0 THEN s
      ELSE LET before == trimEnd(SubSeq(s, 1, open - 1))
               after == trimStart(sliceFrom(s, close + 1))
           IN  before \o <<" ">> \o removeBrackets(after)

\* .replace(/ <word>\.?$/i, '') for a literal that starts with its space
stripSuffixDot(s, suffix) ==
  IF endsWith(s, suffix \o <<".">>) THEN dropEnd(s, Len(suffix) + 1)
  ELSE IF endsWith(s, suffix) THEN dropEnd(s, Len(suffix))
  ELSE s
\* .replace(/<literal>$/i, '')
stripSuffix(s, suffix) == IF endsWith(s, suffix) THEN dropEnd(s, Len(suffix)) ELSE s
\* .replace(/<char>/g, '')
removeChar(s, c) == SelectSeq(s, LAMBDA x : x # c)
\* .replace(/\bco$/i, '')
stripTrailingCo(s) ==
  IF endsWith(s, <<"c","o">>) /\ (Len(s) = 2 \/ ~(\/ IsLetter(s[Len(s) - 2])
                                                \/ s[Len(s) - 2] \in Digits
                                                \/ s[Len(s) - 2] = "_"))
    THEN dropEnd(s, 2) ELSE s
\* .replace(/\.[a-z]+$/i, '')
stripDotWord(s) ==
  LET dots == {j \in 1..(Len(s) - 1) :
                 s[j] = "." /\ \A k \in (j + 1)..Len(s) : IsLetter(s[k])}
  IN  IF dots = {} THEN s ELSE SubSeq(s, 1, (CHOOSE j \in dots : TRUE) - 1)
\* .replace(/[^ -~]/g, ''): the characters outside printable ASCII
IsPrintableAscii(c) == c \notin {"REG", "TM", "\t"}
\* .replace(/s'/g, "'s")
RECURSIVE swapPossessive(_)
swapPossessive(s) ==
  IF Len(s) < 2 THEN s
  ELSE IF s[1] = "s" /\ s[2] = "'" THEN <<"'", "s">> \o swapPossessive(sliceFrom(s, 3))
  ELSE <<s[1]>> \o swapPossessive(Tail(s))
\* .replace(/\s*[\|:]\s*.*/g, ''): everything from the first '|' or ':' on,
\* with the white space in front of it
cutAtBarOrColon(s) ==
  LET marks == {i \in 1..Len(s) : s[i] \in {"|", ":"}}
  IN  IF marks = {} THEN s
      ELSE trimEnd(SubSeq(s, 1, (CHOOSE i \in marks : \A j \in marks : i <= j) - 1))
\* .replace(/\s+/g, ' ')
RECURSIVE collapseSpaces(_)
collapseSpaces(s) ==
  IF s = <<>> THEN s
  ELSE IF IsSpace(s[1]) THEN <<" ">> \o collapseSpaces(trimStart(s))
  ELSE <<s[1]>> \o collapseSpaces(Tail(s))
\* .split(' ').map(word => word.charAt(0).toUpperCase() + word.slice(1)).join(' ')
capitalizeWords(s) ==
  [i \in 1..Len(s) |-> IF i = 1 \/ s[i - 1] = " " THEN (IF IsLower(s[i])
              THEN UpperLetters[CHOOSE k \in DOMAIN LowerLetters : LowerLetters[k] = s[i]]
              ELSE s[i])
     ELSE s[i]]

cleanCompanyName(name) ==
  IF ~Truthy(name) THEN <<>>
  ELSE
    LET s1  == removeBrackets(toLowerCase(name))
        s2  == stripSuffixDot(s1, <<" ","l","t","d">>)
        s3  == stripSuffixDot(s2, <<" ","l","l","c">>)
        s4  == stripSuffixDot(s3, <<" ","i","n","c">>)
        s5  == stripSuffix(s4, <<" ","g","m","b","h">>)
        s6  == stripSuffix(s5, <<" ","p","v","t">>)
        s7  == stripSuffix(s6, <<" ","p","r","i","v","a","t","e">>)
        s8  == stripSuffix(s7, <<" ","l","i","m","i","t","e","d">>)
        s9  == removeChar(removeChar(removeChar(s8, "REG"), "TM"), ",")
        s10 == stripSuffix(s9, <<" ","t","e","c","h","n","o","l","o","g","i","e","s">>)
        s11 == stripTrailingCo(s10)
        s12 == stripDotWord(s11)
        s13 == stripSuffix(stripSuffix(s12, <<".">>), <<"&">>)
        s14 == SelectSeq(s13, IsPrintableAscii)
        s15 == cutAtBarOrColon(swapPossessive(s14))
    IN  capitalizeWords(collapseSpaces(trim(s15)))

\* ------------------------------------------------------------------------
\* Program constants
\* ------------------------------------------------------------------------
batchSize == 20
DOMAIN_FREQUENCY_THRESHOLD == 6
dedupProgressEvery == 100
expandProgressEvery == 20
cleanChunkSize == 500
domainChunkSize == 1000

\* ------------------------------------------------------------------------
\* Literals
\* ------------------------------------------------------------------------
google == <<"g","o","o","g","l","e">>
microsoft == <<"m","i","c","r","o","s","o","f","t">>
other == <<"o","t","h","e","r">>
\* the categories a settled lookup of getMXProvider can produce; a failed or
\* answerless lookup produces other
LookupOutcomes == {google, microsoft, other}

\* Names that every object literal {} inherits from Object.prototype: reading
\* such a key of an empty Record yields the inherited member, not undefined
ObjectPrototypeKeys ==
  { <<"c","o","n","s","t","r","u","c","t","o","r">>,
    <<"t","o","S","t","r","i","n","g">>, <<"v","a","l","u","e","O","f">> }

min(a, b) == IF a <= b THEN a ELSE b

\* ------------------------------------------------------------------------
\* Stage 1 and 2 of processSingleEmailCSV: filter and deduplicate
\* ------------------------------------------------------------------------
validEmail(raw) == LET email == trim(raw) IN email # <<>> /\ includes(email, "@")

filterEmails(data, emailField) ==
  SelectSeq(data, LAMBDA row : validEmail(Get(row, emailField)))

dedupKey(row, emailField) == trim(toLowerCase(row[emailField]))

\* position of key in the insertion-ordered Map, 0 when absent
mapIndex(m, key) ==
  IF \E i \in 1..Len(m) : m[i].key = key
    THEN CHOOSE i \in 1..Len(m) : m[i].key = key
    ELSE 0

\* Map.prototype.set: a new key is appended, an existing key keeps its place
mapSet(m, key, row) ==
  LET i == mapIndex(m, key)
  IN  IF i = 0 THEN Append(m, [key |-> key, row |-> row])
      ELSE [m EXCEPT ![i] = [key |-> key, row |-> row]]

\* a variant that replaces on a tie as well, keeping the latest of the
\* richest rows; C1 tells it from keepsRow
keepsRowOnTie(m, key, row) ==
  mapIndex(m, key) = 0
  \/ nonEmptyValues(row) >= nonEmptyValues(m[mapIndex(m, key)].row)

\* the condition under which the row replaces what the Map holds for its key
keepsRow(m, key, row) ==
  mapIndex(m, key) = 0
  \/ nonEmptyValues(row) > nonEmptyValues(m[mapIndex(m, key)].row)

\* one call of the forEach callback: the Map after the row with this key
dedupStep(m, key, row) == IF keepsRow(m, key, row) THEN mapSet(m, key, row) ELSE m

\* the forEach over filteredData, rows lo..hi in order, starting from the
\* Map m (the range is halved, and m is evaluated on entry, to keep the
\* evaluation shallow)
RECURSIVE dedupLoop(_, _, _, _, _)
dedupLoop(rows, emailField, lo, hi, m) ==
  IF lo > hi \/ Len(m) < 0 THEN m
  ELSE IF lo = hi THEN dedupStep(m, dedupKey(rows[lo], emailField), rows[lo])
  ELSE dedupLoop(rows, emailField, (lo + hi) \div 2 + 1, hi,
                 dedupLoop(rows, emailField, lo, (lo + hi) \div 2, m))

\* Array.from(uniqueEmails.values())
dedupEmails(rows, emailField) ==
  LET m == dedupLoop(rows, emailField, 1, Len(rows), <<>>)
  IN  [i \in 1..Len(m) |-> m[i].row]

\* ------------------------------------------------------------------------
\* processMXBatch and getMXProvider
\* ------------------------------------------------------------------------
\* mxCache[domain]; the inherited member reads as a value that is truthy and
\* is none of the categories
cacheRead(cache, domain) ==
  IF domain \in DOMAIN cache THEN cache[domain]
  ELSE IF domain \in ObjectPrototypeKeys THEN <<"FUNCTION">>
  ELSE <<>>

\* the Set of domains in insertion order
\* one call of the forEach callback: the Set after this email
addDomain(acc, email, domain) ==
  IF Truthy(email) /\ Truthy(domain) /\ ~(\E i \in 1..Len(acc) : acc[i] = domain)
    THEN Append(acc, domain) ELSE acc

\* the forEach over the rows lo..hi in order, starting from the Set acc (the
\* range is halved, and acc is evaluated on entry, to keep the evaluation
\* shallow)
RECURSIVE collectDomains(_, _, _, _, _)
collectDomains(data, emailField, lo, hi, acc) ==
  IF lo > hi \/ Len(acc) < 0 THEN acc
  ELSE IF lo = hi
    THEN addDomain(acc, Get(data[lo], emailField),
                   emailDomainPart(Get(data[lo], emailField)))
  ELSE collectDomains(data, emailField, (lo + hi) \div 2 + 1, hi,
                      collectDomains(data, emailField, lo, (lo + hi) \div 2, acc))

extractDomains(data, emailField) == collectDomains(data, emailField, 1, Len(data), <<>>)

\* a variant that never reads the cache; C13 tells it from getMXProvider
getMXProviderUncached(cache, domain, outcome) == outcome

\* what getMXProvider(domain) resolves to when an uncached lookup settles
\* with the given outcome
getMXProvider(cache, domain, outcome) ==
  IF Truthy(cacheRead(cache, domain)) THEN cacheRead(cache, domain) ELSE outcome

\* "Apply MX results to the data"
applyMX(data, emailField, cache) ==
  [i \in 1..Len(data) |->
     LET email == Get(data[i], emailField)
         cached == cacheRead(cache, emailDomainPart(email))
     IN  Put(data[i], "mx_provider",
             IF Truthy(email) THEN (IF Truthy(cached) THEN cached ELSE other)
             ELSE <<>>)]

\* ------------------------------------------------------------------------
\* Stage 3: cleaning
\* ------------------------------------------------------------------------
withEmptyPeer(row) ==
  Put(Put(Put(row, "other_dm_name", <<>>), "other_dm_email", <<>>), "other_dm_title", <<>>)

\* a variant that leaves the company alone; C10 tells it from
\* cleanCompanyField
cleanCompanyFieldSkipped(row, companyField) == row

\* "Clean company name"
cleanCompanyField(row, companyField) ==
  IF companyField # "" /\ Truthy(Get(row, companyField))
    THEN Put(row, "cleaned_company_name", cleanCompanyName(row[companyField]))
    ELSE row

\* "Clean website", or the domain of the email when no website is there
cleanWebsiteField(row, emailField, websiteField) ==
  IF websiteField # "" /\ Truthy(Get(row, websiteField))
    THEN Put(row, "cleaned_website", cleanWebsiteUrl(row[websiteField]))
  ELSE IF Truthy(Get(row, emailField))
    THEN Put(row, "cleaned_website", emailDomainPart(row[emailField]))
  ELSE row

\* the company and website part of one loop iteration, shared by both
\* pipelines (field names differ)
cleanFields(row, emailField, websiteField, companyField) ==
  cleanWebsiteField(cleanCompanyField(row, companyField), emailField, websiteField)

\* processSingleEmailCSV: the other_dm fields are overwritten with ''
cleanRowSingle(row, emailField, websiteField, companyField) ==
  withEmptyPeer(cleanFields(row, emailField, websiteField, companyField))

\* processMultiEmailCSV: the other_dm fields are added only when undefined
fillUndefined(row, key) == IF key \in DOMAIN row THEN row ELSE Put(row, key, <<>>)
ensurePeerFields(row) ==
  fillUndefined(fillUndefined(fillUndefined(row, "other_dm_name"), "other_dm_email"),
                "other_dm_title")
cleanRowMulti(row) == ensurePeerFields(cleanFields(row, "email", "website", "company"))

\* ------------------------------------------------------------------------
\* Stage 4: domain frequency suppression
\* ------------------------------------------------------------------------
\* the number the counting loop accumulates for a domain
domainCount(rows, domain) ==
  Cardinality({i \in 1..Len(rows) : Get(rows[i], "cleaned_website") = domain})

\* a variant with the comparison one higher; C2 tells it from withinThreshold
withinThresholdPlusOne(rows, domain) ==
  IF domain \in ObjectPrototypeKeys THEN FALSE
  ELSE domainCount(rows, domain) <= DOMAIN_FREQUENCY_THRESHOLD + 1

\* domainCounts[domain] <= DOMAIN_FREQUENCY_THRESHOLD.  domainCounts is an
\* object literal: for a name inherited from Object.prototype the counting
\* loop reads the inherited member, (member || 0) + 1 is a string, and the
\* comparison of a non-numeric string with 6 is false
withinThreshold(rows, domain) ==
  IF domain \in ObjectPrototypeKeys THEN FALSE
  ELSE domainCount(rows, domain) <= DOMAIN_FREQUENCY_THRESHOLD

keptByDomainFilter(rows, row) ==
  LET domain == Get(row, "cleaned_website")
  IN  ~Truthy(domain) \/ trim(domain) = <<>> \/ withinThreshold(rows, domain)

filterByDomain(rows) == SelectSeq(rows, LAMBDA row : keptByDomainFilter(rows, row))

\* ------------------------------------------------------------------------
\* Stage 5: round-robin assignment of the alternative contact
\* ------------------------------------------------------------------------
\* rows are grouped when the domain is non-empty and not blank
grouped(row) ==
  Truthy(Get(row, "cleaned_website")) /\ trim(Get(row, "cleaned_website")) # <<>>

\* a variant that puts the rows of every domain into one group; C28 tells it
\* from domainGroup
domainGroupAcrossDomains(rows, domain) ==
  SelectSeq([i \in 1..Len(rows) |-> i], LAMBDA i : grouped(rows[i]))

\* domainMap[domain] as the positions of its rows in table order
domainGroup(rows, domain) ==
  LET idx == {i \in 1..Len(rows) : grouped(rows[i]) /\ rows[i]["cleaned_website"] = domain}
      RECURSIVE ordered(_)
      ordered(S) == IF S = {} THEN <<>>
                    ELSE LET lo == CHOOSE i \in S : \A j \in S : i <= j
                         IN  <<lo>> \o ordered(S \ {lo})
  IN  ordered(idx)

positionIn(seq, x) == CHOOSE i \in 1..Len(seq) : seq[i] = x
\* (i + 1) % length, in 1-based positions
nextIndex(i, length) == (i % length) + 1

nonBlank(s) == Truthy(s) /\ trim(s) # <<>>

\* name resolution of processSingleEmailCSV
otherDmNameSingle(nextRow) ==
  IF nonBlank(Get(nextRow, "full_name")) THEN trim(nextRow["full_name"])
  ELSE IF nonBlank(Get(nextRow, "fullName")) THEN trim(nextRow["fullName"])
  ELSE LET firstName == IF Truthy(Get(nextRow, "first_name")) THEN trim(nextRow["first_name"])
                        ELSE IF Truthy(Get(nextRow, "firstName")) THEN trim(nextRow["firstName"])
                        ELSE <<>>
           lastName == IF Truthy(Get(nextRow, "last_name")) THEN trim(nextRow["last_name"])
                       ELSE IF Truthy(Get(nextRow, "lastName")) THEN trim(nextRow["lastName"])
                       ELSE <<>>
           combined == IF Truthy(firstName) /\ Truthy(lastName)
                         THEN firstName \o <<" ">> \o lastName ELSE <<>>
       IN  IF ~Truthy(combined) /\ Truthy(Get(nextRow, "Full Name"))
             THEN trim(nextRow["Full Name"]) ELSE combined

otherDmTitleSingle(nextRow) ==
  IF Truthy(Get(nextRow, "title")) THEN trim(nextRow["title"])
  ELSE IF Truthy(Get(nextRow, "Title")) THEN trim(nextRow["Title"])
  ELSE <<>>

\* domainMap[domain] for the domain of rows[i]; empty when the row is not
\* grouped
groupOf(rows, i) ==
  IF grouped(rows[i]) THEN domainGroup(rows, rows[i]["cleaned_website"]) ELSE <<>>

\* "Only assign if we found a valid name"
withPeerSingle(currentRow, nextRow, otherDmName, emailField) ==
  IF Truthy(otherDmName)
    THEN Put(Put(Put(currentRow, "other_dm_name", otherDmName),
                 "other_dm_email", Get(nextRow, emailField)),
             "other_dm_title", otherDmTitleSingle(nextRow))
    ELSE currentRow

assignFromSingle(currentRow, nextRow, emailField) ==
  withPeerSingle(currentRow, nextRow, otherDmNameSingle(nextRow), emailField)

\* one iteration of the inner for loop: rows[i] receives the next row of its
\* domain group, when the group has more than one row
peerInGroupSingle(rows, i, group, emailField) ==
  IF Len(group) > 1
    THEN assignFromSingle(rows[i],
                          rows[group[nextIndex(positionIn(group, i), Len(group))]],
                          emailField)
    ELSE rows[i]

assignPeerSingle(rows, i, emailField) ==
  peerInGroupSingle(rows, i, groupOf(rows, i), emailField)

assignPeersSingle(rows, emailField) ==
  [i \in 1..Len(rows) |-> assignPeerSingle(rows, i, emailField)]

\* validContacts filter of processMultiEmailCSV
isValidContact(row) ==
  LET email == Get(row, "email")
      fullName == IF Truthy(Get(row, "fullName")) THEN row["fullName"] ELSE Get(row, "full_name")
      firstName == IF Truthy(Get(row, "firstName")) THEN row["firstName"] ELSE Get(row, "first_name")
      lastName == IF Truthy(Get(row, "lastName")) THEN row["lastName"] ELSE Get(row, "last_name")
      hasFullName == nonBlank(fullName)
      hasFirstAndLastName == nonBlank(firstName) /\ nonBlank(lastName)
  IN  (hasFullName \/ hasFirstAndLastName) /\ ~isGenericEmail(email)

\* name resolution of processMultiEmailCSV
otherDmNameMulti(nextContact) ==
  IF nonBlank(Get(nextContact, "fullName")) THEN trim(nextContact["fullName"])
  ELSE IF nonBlank(Get(nextContact, "full_name")) THEN trim(nextContact["full_name"])
  ELSE IF Truthy(Get(nextContact, "firstName")) /\ Truthy(Get(nextContact, "lastName"))
    THEN trim(nextContact["firstName"]) \o <<" ">> \o trim(nextContact["lastName"])
  ELSE IF Truthy(Get(nextContact, "first_name")) /\ Truthy(Get(nextContact, "last_name"))
    THEN trim(nextContact["first_name"]) \o <<" ">> \o trim(nextContact["last_name"])
  ELSE <<>>

\* the isCompanyName test: the resolved name against the company fields of
\* the contact the name was taken from
isCompanyName(otherDmName, nextContact) ==
  LET companyName == Get(nextContact, "company")
      cleanedCompanyName == Get(nextContact, "cleaned_company_name")
  IN  (Truthy(companyName) /\ toLowerCase(otherDmName) = toLowerCase(companyName))
      \/ (Truthy(cleanedCompanyName)
          /\ toLowerCase(otherDmName) = toLowerCase(cleanedCompanyName))

\* validContacts of the group of rows[i], as positions in table order
validContacts(rows, group) == SelectSeq(group, LAMBDA k : isValidContact(rows[k]))

\* "Only set other_dm_name if we have a valid person name", unless it is a
\* company name
withPeerMulti(currentContact, nextContact, otherDmName) ==
  IF nonBlank(otherDmName) /\ ~isCompanyName(otherDmName, nextContact)
    THEN Put(Put(Put(currentContact, "other_dm_name", otherDmName),
                 "other_dm_title", Get(nextContact, "title")),
             "other_dm_email", Get(nextContact, "email"))
    ELSE currentContact

assignFromMulti(currentContact, nextContact) ==
  withPeerMulti(currentContact, nextContact, otherDmNameMulti(nextContact))

\* one iteration of validContacts.forEach for rows[i], when its group has
\* more than one row and more than one valid contact
peerAmongValid(rows, i, group, valid) ==
  IF Len(group) > 1 /\ Len(valid) > 1 /\ \E k \in 1..Len(valid) : valid[k] = i
    THEN assignFromMulti(rows[i],
                         rows[valid[nextIndex(positionIn(valid, i), Len(valid))]])
    ELSE rows[i]

peerInGroupMulti(rows, i, group) ==
  peerAmongValid(rows, i, group, validContacts(rows, group))

assignPeerMulti(rows, i) == peerInGroupMulti(rows, i, groupOf(rows, i))

assignPeersMulti(rows) == [i \in 1..Len(rows) |-> assignPeerMulti(rows, i)]

\* ------------------------------------------------------------------------
\* Expansion stage of processMultiEmailCSV
\* ------------------------------------------------------------------------
\* mappedColumns is an object whose keys keep their insertion order:
\* keys is Object.keys(mappedColumns), column the mapping itself
mapped(m, key) == IF key \in DOMAIN m.column THEN m.column[key] ELSE ""

\* key.startsWith('email_') over the role names the column mapping produces
EmailPrefixedKeys ==
  { "email_1", "email_1_full_name", "email_1_first_name", "email_1_last_name",
    "email_1_title", "email_1_phone",
    "email_2", "email_2_full_name", "email_2_first_name", "email_2_last_name",
    "email_2_title", "email_2_phone" }

emailColumns(m) == SelectSeq(m.keys, LAMBDA key : key \in EmailPrefixedKeys)

\* the row pushed to expandedData for one email column that holds a valid
\* email
expandedRow(row, m, emailCol) ==
  LET email == trim(Get(row, mapped(m, emailCol)))
      meta(suffix) == Get(row, mapped(m, emailCol \o suffix))
      copied == [k \in DOMAIN row \cup {"email", "fullName", "firstName", "lastName",
                                       "title", "phone", "_source_column"} |->
                   CASE k = "email" -> email
                     [] k = "fullName" -> meta("_full_name")
                     [] k = "firstName" -> meta("_first_name")
                     [] k = "lastName" -> meta("_last_name")
                     [] k = "title" -> meta("_title")
                     [] k = "phone" -> meta("_phone")
                     [] k = "_source_column" -> <<emailCol>>
                     [] OTHER -> row[k]]
      withWebsite ==
        IF mapped(m, "website") # "" /\ Truthy(Get(row, mapped(m, "website")))
          THEN Put(copied, "website", row[mapped(m, "website")]) ELSE copied
      withCompany ==
        IF mapped(m, "company") # "" /\ Truthy(Get(row, mapped(m, "company")))
          THEN Put(withWebsite, "company", row[mapped(m, "company")]) ELSE withWebsite
  IN  withEmptyPeer(withCompany)

\* the rows one source row contributes, one per email column with a
\* non-empty value that contains '@'
RECURSIVE expandRow(_, _, _, _)
expandRow(row, m, cols, k) ==
  IF k > Len(cols) THEN <<>>
  ELSE (IF validEmail(Get(row, mapped(m, cols[k])))
          THEN <<expandedRow(row, m, cols[k])>> ELSE <<>>)
       \o expandRow(row, m, cols, k + 1)

\* the rows the source rows lo..hi contribute, in order (the range is
\* halved to keep the evaluation shallow)
RECURSIVE expandFrom(_, _, _, _)
expandFrom(data, m, lo, hi) ==
  IF lo > hi THEN <<>>
  ELSE IF lo = hi THEN expandRow(data[lo], m, emailColumns(m), 1)
  ELSE expandFrom(data, m, lo, (lo + hi) \div 2)
       \o expandFrom(data, m, (lo + hi) \div 2 + 1, hi)

expandEmails(data, m) == expandFrom(data, m, 1, Len(data))

\* ------------------------------------------------------------------------
\* Inputs
\* ------------------------------------------------------------------------
\* Bounds of the model
MaxRows == 3
MaxWide == 8
\* rows of a table whose rows all have a domain of their own: more than one
\* batch of lookups
MaxDomains == 21
\* rows of a table of duplicates: more than one report of the deduplication loop
MaxDuplicates == 101
\* rows of a table of minimal rows: more than one cleaning chunk
MaxBulk == 501
\* rows of a domain-only table of minimal rows: more than one chunk
MaxDomainOnly == 1001
\* lookups of one batch whose outcomes vary freely; in a larger batch they
\* agree, but for at most one failed lookup
MaxMixedBatch == 4

\* the mapping handleColumnsMapped receives for a single-email file
SingleMapping ==
  [keys |-> <<"email", "website", "company">>,
   column |-> [email |-> "email", website |-> "website", company |-> "company"]]

\* the mapping for a multi-email file with the headers of MultiPool
MultiMapping ==
  [keys |-> <<"email_1", "email_1_full_name", "email_1_first_name", "email_1_last_name",
              "email_1_title", "email_2", "email_2_full_name", "website", "company">>,
   column |-> [email_1 |-> "email_1", email_1_full_name |-> "email_1_full_name",
               email_1_first_name |-> "email_1_first_name",
               email_1_last_name |-> "email_1_last_name",
               email_1_title |-> "email_1_title", email_2 |-> "email_2",
               email_2_full_name |-> "email_2_full_name",
               website |-> "website", company |-> "company"]]

\* the mapping for a domain-only file
DomainMapping ==
  [keys |-> <<"website">>, column |-> [website |-> "website"]]

\* rows of a domain-only file
DomainPool ==
  { [website |-> <<"x",".","i","o">>, name |-> <<"N">>],
    [website |-> <<" ","x",".","i","o"," ">>, name |-> <<" ","N"," ">>],
    [website |-> <<"h","t","t","p","s",":","/","/","w","w","w",".","X",".","i","o","/","p">>,
     name |-> <<>>],
    [website |-> <<>>, name |-> <<"N">>] }

\* rows of a single-email file
SinglePool ==
  {
    \* a rich record
    [email |-> <<"a","@","x",".","i","o">>, full_name |-> <<"A"," ","A">>, first_name |-> <<>>, last_name |-> <<>>,
     title |-> <<"C","E","O">>, company |-> <<"A","c","m","e"," ","I","n","c">>, website |-> <<>>],
    \* the same address in another case and with a leading blank, as many fields
    [email |-> <<" ","A","@","x",".","i","o">>, full_name |-> <<"A","l"," ","A">>, first_name |-> <<>>, last_name |-> <<>>,
     title |-> <<"V","P">>, company |-> <<"A","c","m","e">>, website |-> <<>>],
    \* the same address again, fewer fields
    [email |-> <<"a","@","x",".","i","o">>, full_name |-> <<"A","l">>, first_name |-> <<>>, last_name |-> <<>>,
     title |-> <<>>, company |-> <<>>, website |-> <<>>],
    \* a namesake of the first contact whose company is that name
    [email |-> <<"b","@","x",".","i","o">>, full_name |-> <<"A"," ","A">>, first_name |-> <<>>, last_name |-> <<>>,
     title |-> <<>>, company |-> <<"A"," ","A">>, website |-> <<>>],
    \* first and last name only, and a website that canonicalises to x.io
    [email |-> <<"c","@","x",".","i","o">>, full_name |-> <<>>, first_name |-> <<"C">>, last_name |-> <<"C">>,
     title |-> <<"C","T","O">>, company |-> <<"A","c","m","e"," ","I","n","c">>, website |-> <<"h","t","t","p","s",":","/","/","w","w","w",".","X",".","i","o","/","p">>],
    \* a generic mailbox with a name
    [email |-> <<"I","N","F","O","@","x",".","i","o">>, full_name |-> <<"I"," ","D">>, first_name |-> <<>>, last_name |-> <<>>,
     title |-> <<>>, company |-> <<>>, website |-> <<>>],
    \* no name at all
    [email |-> <<"d","@","x",".","i","o">>, full_name |-> <<>>, first_name |-> <<>>, last_name |-> <<>>,
     title |-> <<>>, company |-> <<>>, website |-> <<>>],
    \* another organisation
    [email |-> <<"e","@","y",".","i","o">>, full_name |-> <<"E"," ","E">>, first_name |-> <<>>, last_name |-> <<>>,
     title |-> <<>>, company |-> <<>>, website |-> <<>>],
    \* no '@'
    [email |-> <<"n">>, full_name |-> <<"N"," ","N">>, first_name |-> <<>>, last_name |-> <<>>,
     title |-> <<>>, company |-> <<>>, website |-> <<>>],
    \* a domain named like a member of Object.prototype
    [email |-> <<"f","@","c","o","n","s","t","r","u","c","t","o","r">>, full_name |-> <<"F"," ","F">>, first_name |-> <<>>, last_name |-> <<>>,
     title |-> <<>>, company |-> <<>>, website |-> <<>>]
  }

\* rows of a multi-email file
MultiPool ==
  {
    \* two contacts of one company
    [email_1 |-> <<"a","@","x",".","i","o">>, email_1_full_name |-> <<"A"," ","A">>, email_1_first_name |-> <<>>,
     email_1_last_name |-> <<>>, email_1_title |-> <<"C","E","O">>, email_2 |-> <<"b","@","x",".","i","o">>,
     email_2_full_name |-> <<"B"," ","B">>, company |-> <<"A","c","m","e"," ","I","n","c">>, website |-> <<>>],
    \* the same address in both slots
    [email_1 |-> <<"c","@","x",".","i","o">>, email_1_full_name |-> <<"C"," ","C">>, email_1_first_name |-> <<>>,
     email_1_last_name |-> <<>>, email_1_title |-> <<>>, email_2 |-> <<"c","@","x",".","i","o">>,
     email_2_full_name |-> <<"C"," ","C">>, company |-> <<>>, website |-> <<>>],
    \* a generic mailbox with a name, second slot empty
    [email_1 |-> <<"I","N","F","O","@","x",".","i","o">>, email_1_full_name |-> <<"I"," ","D">>, email_1_first_name |-> <<>>,
     email_1_last_name |-> <<>>, email_1_title |-> <<>>, email_2 |-> <<>>,
     email_2_full_name |-> <<>>, company |-> <<"A","c","m","e"," ","I","n","c">>, website |-> <<>>],
    \* a contact without a name, and one of another organisation
    [email_1 |-> <<"d","@","x",".","i","o">>, email_1_full_name |-> <<>>, email_1_first_name |-> <<>>,
     email_1_last_name |-> <<>>, email_1_title |-> <<>>, email_2 |-> <<"e","@","y",".","i","o">>,
     email_2_full_name |-> <<"E"," ","E">>, company |-> <<>>, website |-> <<>>],
    \* a contact named like its company
    [email_1 |-> <<"f","@","x",".","i","o">>, email_1_full_name |-> <<"A","c","m","e">>, email_1_first_name |-> <<>>,
     email_1_last_name |-> <<>>, email_1_title |-> <<>>, email_2 |-> <<>>,
     email_2_full_name |-> <<>>, company |-> <<"A","C","M","E">>, website |-> <<>>],
    \* first and last name only; the company is the name of another contact
    [email_1 |-> <<"g","@","x",".","i","o">>, email_1_full_name |-> <<>>, email_1_first_name |-> <<"G">>,
     email_1_last_name |-> <<"G">>, email_1_title |-> <<"C","T","O">>, email_2 |-> <<>>,
     email_2_full_name |-> <<>>, company |-> <<"a"," ","a">>, website |-> <<"h","t","t","p","s",":","/","/","w","w","w",".","X",".","i","o","/","p">>],
    \* a domain named like a member of Object.prototype
    [email_1 |-> <<"h","@","c","o","n","s","t","r","u","c","t","o","r">>, email_1_full_name |-> <<"H"," ","H">>, email_1_first_name |-> <<>>,
     email_1_last_name |-> <<>>, email_1_title |-> <<>>, email_2 |-> <<>>,
     email_2_full_name |-> <<>>, company |-> <<>>, website |-> <<>>],
    \* no address in either slot; the title holds an '@'
    [email_1 |-> <<>>, email_1_full_name |-> <<"J"," ","J">>, email_1_first_name |-> <<>>,
     email_1_last_name |-> <<>>, email_1_title |-> <<"V","P","@","x",".","i","o">>, email_2 |-> <<>>,
     email_2_full_name |-> <<>>, company |-> <<>>, website |-> <<>>]
  }

\* the tables of at most n rows over a pool
Tables(pool, n) == UNION {[1..k -> pool] : k \in 0..n}

\* Wide tables: row i has its own address (the i-th letter as local part)
\* and name; the first nx rows are of x.io, the next ny of X.io, the rest
\* have an empty domain part
wideName(i) == <<UpperLetters[i], " ", UpperLetters[i]>>
wideEmail(i, nx, ny) ==
  <<LowerLetters[i]>> \o <<"@">> \o (IF i <= nx THEN <<"x",".","i","o">>
                              ELSE IF i <= nx + ny THEN <<"X",".","i","o">>
                              ELSE <<>>)

WideSingleTables ==
  { [i \in 1..n |->
       [email |-> wideEmail(i, nx, ny), full_name |-> wideName(i), first_name |-> <<>>,
        last_name |-> <<>>, title |-> <<>>, company |-> <<>>, website |-> <<>>]]
    : <<n, nx, ny>> \in {w \in (0..MaxWide) \X (0..MaxWide) \X (0..MaxWide) :
                           w[1] > MaxRows /\ w[2] + w[3] <= w[1]} }

WideMultiTables ==
  { [i \in 1..n |->
       [email_1 |-> wideEmail(i, nx, ny), email_1_full_name |-> wideName(i),
        email_1_first_name |-> <<>>, email_1_last_name |-> <<>>, email_1_title |-> <<>>,
        email_2 |-> <<>>, email_2_full_name |-> <<>>, company |-> <<>>, website |-> <<>>]]
    : <<n, nx, ny>> \in {w \in (0..MaxWide) \X (0..MaxWide) \X (0..MaxWide) :
                           w[1] > MaxRows /\ w[2] + w[3] <= w[1]} }

\* Tables whose row i has the domain <i-th letter>.io, so that the domains
\* do not fit one batch of lookups; the company of the single-email rows
\* carries two legal-entity suffixes
manyEmail(i) == <<LowerLetters[i]>> \o <<"@">> \o <<LowerLetters[i], ".", "i", "o">>

ManyDomainSingleTables ==
  { [i \in 1..n |->
       [email |-> manyEmail(i), full_name |-> wideName(i), first_name |-> <<>>,
        last_name |-> <<>>, title |-> <<>>,
        company |-> <<"A","c","m","e"," ","L","t","d"," ","I","n","c">>, website |-> <<>>]]
    : n \in (batchSize + 1)..MaxDomains }

ManyDomainMultiTables ==
  { [i \in 1..n |->
       [email_1 |-> manyEmail(i), email_1_full_name |-> wideName(i),
        email_1_first_name |-> <<>>, email_1_last_name |-> <<>>, email_1_title |-> <<>>,
        email_2 |-> <<>>, email_2_full_name |-> <<>>, company |-> <<>>, website |-> <<>>]]
    : n \in (batchSize + 1)..MaxDomains }

\* Tables of n copies of a minimal row whose address has an empty domain
\* part: no lookup, no domain group
DuplicateSingleTables ==
  { [i \in 1..n |->
       [email |-> <<"a", "@">>, full_name |-> <<>>, first_name |-> <<>>,
        last_name |-> <<>>, title |-> <<>>, company |-> <<>>, website |-> <<>>]]
    : n \in (dedupProgressEvery + 1)..MaxDuplicates }

BulkMultiTables ==
  { [i \in 1..n |->
       [email_1 |-> <<"a", "@">>, email_1_full_name |-> <<>>,
        email_1_first_name |-> <<>>, email_1_last_name |-> <<>>, email_1_title |-> <<>>,
        email_2 |-> <<>>, email_2_full_name |-> <<>>, company |-> <<>>, website |-> <<>>]]
    : n \in (cleanChunkSize + 1)..MaxBulk }

BulkDomainTables ==
  { [i \in 1..n |-> [website |-> <<>>, name |-> <<>>]]
    : n \in (domainChunkSize + 1)..MaxDomainOnly }

\* What the module-level cache holds when a run starts: nothing, or what an
\* earlier run on the same page resolved.  The earlier resolutions are tried
\* with the generated tables.
EarlierCache ==
  [d \in {<<"x",".","i","o">>, <<"b",".","i","o">>} |->
     IF d = <<"x",".","i","o">> THEN microsoft ELSE google]

\* ------------------------------------------------------------------------
\* State
\* ------------------------------------------------------------------------
VARIABLES
  csvContent,       \* FileUpload: the text the FileReader delivered
  csvHeaders,       \* Dashboard state: the headers of the uploaded file
  serialized,       \* the text dataToCSV made of the uploaded table
  reparsed,         \* what parseCSV made of that text
  csvFileType,      \* Dashboard state: the inferred type of the uploaded file
  csvData,          \* Dashboard state: the parsed rows
  mappedColumns,    \* the mapping passed to handleColumnsMapped
  status,           \* task.status
  pc,               \* where the run of processCSV stands
  filteredData,     \* processSingleEmailCSV: rows that passed the email filter
  uniqueEmailData,  \* processSingleEmailCSV: rows after deduplication
  expandedData,     \* processMultiEmailCSV: rows after expansion
  uniqueDomains,    \* processMXBatch: the domains to look up, in order
  batchStart,       \* processMXBatch: the loop index i
  outstanding,      \* getMXProvider: the domains whose fetch has not settled
  lookups,          \* getMXProvider: the domains a fetch was issued for, in order
  mxCache,          \* the module-level cache of getMXProvider
  processedData,    \* rows after cleaning, as they enter the domain filter
  filteredByDomain, \* rows the domain filter kept, before peers are assigned
  result,           \* the table the pipeline returned
  events            \* the calls of updateProgress so far

vars == <<csvContent, csvHeaders, serialized, reparsed, csvFileType, csvData, mappedColumns, status, pc, filteredData,
          uniqueEmailData, expandedData, uniqueDomains, batchStart, outstanding,
          lookups, mxCache, processedData, filteredByDomain, result, events>>

progress(processed, total, stage) ==
  [processed |-> processed, total |-> total, stage |-> stage]

\* the state handleColumnsMapped leaves: a pending task for an uploaded file
Init ==
  /\ \/ csvFileType = "single-email" /\ mappedColumns = SingleMapping
        /\ csvHeaders = <<"email", "full_name", "first_name", "last_name", "title",
                          "company", "website">>
        /\ csvData \in Tables(SinglePool, MaxRows) \cup WideSingleTables
                       \cup ManyDomainSingleTables \cup DuplicateSingleTables
     \/ csvFileType = "multi-email" /\ mappedColumns = MultiMapping
        /\ csvHeaders = <<"email_1", "email_1_full_name", "email_1_first_name",
                          "email_1_last_name", "email_1_title", "email_2",
                          "email_2_full_name", "company", "website">>
        /\ csvData \in Tables(MultiPool, MaxRows) \cup WideMultiTables
                       \cup ManyDomainMultiTables \cup BulkMultiTables
     \/ csvFileType = "domain-only" /\ mappedColumns = DomainMapping
        /\ csvHeaders = <<"website", "name">>
        /\ csvData \in Tables(DomainPool, MaxRows) \cup BulkDomainTables
  /\ mxCache \in IF Len(csvData) > MaxRows /\ csvFileType # "domain-only"
                   THEN {<<>>, EarlierCache} ELSE {<<>>}
  /\ csvContent = <<>>
  /\ serialized = <<>>
  /\ reparsed = [headers |-> <<>>, data |-> <<>>]
  /\ status = "pending"
  /\ pc = "pending"
  /\ filteredData = <<>>
  /\ uniqueEmailData = <<>>
  /\ expandedData = <<>>
  /\ uniqueDomains = <<>>
  /\ batchStart = 0
  /\ outstanding = {}
  /\ lookups = <<>>
  /\ processedData = <<>>
  /\ filteredByDomain = <<>>
  /\ result = <<>>
  /\ events = <<>>

\* updateProgress calls of a forEach that reports when index % every = 0
everyNth(n, every, total, stage) ==
  LET RECURSIVE from(_)
      from(index) == IF index >= n THEN <<>>
                     ELSE <<progress(index + 1, total, stage)>> \o from(index + every)
  IN  from(0)

\* updateProgress calls of a loop over chunks of the given size
perChunk(n, size, stage) ==
  LET RECURSIVE from(_)
      from(i) == IF i >= n THEN <<>>
                 ELSE <<progress(min(i + size, n), n, stage)>> \o from(i + size)
  IN  from(0)

\* the state at the first await of processMXBatch, given the filtered and the
\* deduplicated rows
AwaitSingle(filtered, unique, emailField) ==
  /\ filteredData' = filtered
  /\ uniqueEmailData' = unique
  /\ uniqueDomains' = extractDomains(unique, emailField)
  /\ events' = events
       \o <<progress(0, Len(csvData), "Filtering email data")>>
       \o everyNth(Len(filtered), dedupProgressEvery, Len(csvData),
                   "Removing duplicate emails")
       \o <<progress(Len(unique), Len(csvData), "Removed duplicate emails"),
            progress(0, Len(unique), "Processing MX records")>>

FilteredSingle(filtered, emailField) ==
  AwaitSingle(filtered, dedupEmails(filtered, emailField), emailField)

\* processCSV for a single-email file, up to the first await of processMXBatch
StartSingleEmail ==
  /\ pc = "pending"
  /\ csvFileType = "single-email"
  /\ FilteredSingle(filterEmails(csvData, mapped(mappedColumns, "email")),
                    mapped(mappedColumns, "email"))
  /\ status' = "processing"
  /\ batchStart' = 0
  /\ pc' = "mx"
  /\ UNCHANGED <<csvContent, csvHeaders, serialized, reparsed,
                 csvFileType, csvData, mappedColumns, expandedData, mxCache,
                 outstanding, lookups, processedData, filteredByDomain, result>>

\* updateProgress calls of the expansion loop: idx % 20 = 0 or the last row
expandProgress(n) ==
  LET reporting == SelectSeq([k \in 1..n |-> k - 1],
                             LAMBDA idx : idx % expandProgressEvery = 0 \/ idx = n - 1)
  IN  [k \in 1..Len(reporting) |-> progress(reporting[k] + 1, n, "Organizing email data")]

\* the state after the expansion loop: at the first await of processMXBatch,
\* or returned to processCSV when the expansion yields no row
Expanded(expanded, organizing) ==
  /\ expandedData' = expanded
  /\ IF Len(expanded) = 0
       THEN /\ events' = events \o organizing
            /\ uniqueDomains' = <<>>
            /\ status' = "processing"
            /\ pc' = "returned"
       ELSE /\ events' = events \o organizing
                 \o <<progress(0, Len(expanded), "Processing MX records")>>
            /\ uniqueDomains' = extractDomains(expanded, "email")
            /\ status' = "processing"
            /\ pc' = "mx"

\* processCSV for a multi-email file, up to the first await of processMXBatch,
\* or to the end when the expansion yields no row
StartMultiEmail ==
  /\ pc = "pending"
  /\ csvFileType = "multi-email"
  /\ Expanded(expandEmails(csvData, mappedColumns),
              <<progress(0, Len(csvData), "Organizing email data")>>
              \o expandProgress(Len(csvData)))
  /\ batchStart' = 0
  /\ result' = <<>>
  /\ UNCHANGED <<csvContent, csvHeaders, serialized, reparsed,
                 csvFileType, csvData, mappedColumns, filteredData, uniqueEmailData,
                 mxCache, outstanding, lookups, processedData, filteredByDomain>>

\* the domains of the batch that starts at batchStart, in order
\* a variant whose batches overlap by one domain; C14 tells it from
\* batchDomains
batchDomainsOverlapping ==
  SubSeq(uniqueDomains, batchStart + 1, min(batchStart + batchSize + 1, Len(uniqueDomains)))

batchDomains ==
  SubSeq(uniqueDomains, batchStart + 1, min(batchStart + batchSize, Len(uniqueDomains)))

\* what the lookups of one batch can settle with
BatchOutcomes(fetched) ==
  IF Cardinality(fetched) <= MaxMixedBatch THEN [fetched -> LookupOutcomes]
  ELSE {[d \in fetched |-> o] : o \in LookupOutcomes}
       \cup {[d \in fetched |-> IF d = f THEN other ELSE o] :
               f \in fetched, o \in {google, microsoft}}

\* batch.map(domain => getMXProvider(domain)): every call runs to its first
\* await, which is the fetch for a domain the cache does not hold; then
\* processMXBatch awaits Promise.all
MXBatchIssue ==
  /\ pc = "mx"
  /\ batchStart < Len(uniqueDomains)
  /\ outstanding' = {batchDomains[k] : k \in {j \in 1..Len(batchDomains) :
                                               ~Truthy(cacheRead(mxCache, batchDomains[j]))}}
  /\ lookups' = lookups \o SelectSeq(batchDomains,
                                     LAMBDA d : ~Truthy(cacheRead(mxCache, d)))
  /\ pc' = "lookup"
  /\ UNCHANGED <<csvContent, csvHeaders, serialized, reparsed,
                 csvFileType, csvData, mappedColumns, status, filteredData,
                 uniqueEmailData, expandedData, uniqueDomains, batchStart, mxCache,
                 processedData, filteredByDomain, result, events>>

\* the lookups of the batch have settled and Promise.all resolves: the cache
\* takes the results, progress is reported, the loop goes on
MXBatchSettle ==
  /\ pc = "lookup"
  /\ \E outcome \in BatchOutcomes(outstanding) :
       mxCache' = [d \in DOMAIN mxCache \cup {batchDomains[k] : k \in 1..Len(batchDomains)} |->
                     IF d \in outstanding THEN getMXProvider(mxCache, d, outcome[d])
                     ELSE IF \E k \in 1..Len(batchDomains) : batchDomains[k] = d
                       THEN getMXProvider(mxCache, d, other)
                     ELSE mxCache[d]]
  /\ events' = Append(events, progress(min(batchStart + batchSize, Len(uniqueDomains)),
                                       IF csvFileType = "single-email"
                                         THEN Len(uniqueEmailData)
                                         ELSE Len(expandedData),
                                       "Processing MX records"))
  /\ batchStart' = batchStart + batchSize
  /\ outstanding' = {}
  /\ pc' = "mx"
  /\ UNCHANGED <<csvContent, csvHeaders, serialized, reparsed,
                 csvFileType, csvData, mappedColumns, status, filteredData,
                 uniqueEmailData, expandedData, uniqueDomains, lookups, processedData,
                 filteredByDomain, result>>

\* a variant that announces the frequency analysis before the cleaning
\* chunks are reported; C12 tells it from finishEvents
finishEventsInterleaved(nProcessed, nKept) ==
  <<progress(0, nProcessed, "Cleaning data"),
    progress(0, nProcessed, "Analyzing domain frequencies")>>
  \o perChunk(nProcessed, cleanChunkSize, "Cleaning data")
  \o <<progress(0, nKept, "Adding alternative contacts"),
       progress(nKept, nKept, "Complete")>>

\* the events of the stages after processMXBatch
finishEvents(nProcessed, nKept) ==
  <<progress(0, nProcessed, "Cleaning data")>>
  \o perChunk(nProcessed, cleanChunkSize, "Cleaning data")
  \o <<progress(0, nProcessed, "Analyzing domain frequencies"),
       progress(0, nKept, "Adding alternative contacts"),
       progress(nKept, nKept, "Complete")>>

\* the return of the pipeline and processCSV marking the task complete:
\* cleaned are the rows entering the domain filter, kept the rows it keeps,
\* returned the rows after peer assignment
Returned(cleaned, kept, returned) ==
  /\ processedData' = cleaned
  /\ filteredByDomain' = kept
  /\ result' = returned
  /\ events' = events \o finishEvents(Len(cleaned), Len(kept))
  /\ status' = "complete"
  /\ pc' = "done"
  /\ UNCHANGED <<csvContent, csvHeaders, serialized, reparsed,
                 csvFileType, csvData, mappedColumns, filteredData, uniqueEmailData,
                 expandedData, uniqueDomains, batchStart, outstanding, lookups, mxCache>>

cleanSingle(rows, emailField, websiteField, companyField) ==
  [i \in 1..Len(rows) |-> cleanRowSingle(rows[i], emailField, websiteField, companyField)]

KeptSingle(cleaned, kept, emailField) ==
  Returned(cleaned, kept, assignPeersSingle(kept, emailField))
CleanedSingle(cleaned, emailField) ==
  KeptSingle(cleaned, filterByDomain(cleaned), emailField)

\* processSingleEmailCSV from the return of processMXBatch to its own
\* return, and processCSV marking the task complete
FinishSingleEmail ==
  /\ pc = "mx"
  /\ csvFileType = "single-email"
  /\ batchStart >= Len(uniqueDomains)
  /\ CleanedSingle(cleanSingle(applyMX(uniqueEmailData, mapped(mappedColumns, "email"),
                                       mxCache),
                               mapped(mappedColumns, "email"),
                               mapped(mappedColumns, "website"),
                               mapped(mappedColumns, "company")),
                   mapped(mappedColumns, "email"))

cleanMulti(rows) == [i \in 1..Len(rows) |-> cleanRowMulti(rows[i])]

\* "Final verification": every row has the other_dm fields
KeptMulti(cleaned, kept) ==
  LET assigned == assignPeersMulti(kept)
  IN Returned(cleaned, kept, [i \in 1..Len(kept) |-> ensurePeerFields(assigned[i])])
CleanedMulti(cleaned) == KeptMulti(cleaned, filterByDomain(cleaned))

\* processMultiEmailCSV from the return of processMXBatch to its own return,
\* and processCSV marking the task complete
FinishMultiEmail ==
  /\ pc = "mx"
  /\ csvFileType = "multi-email"
  /\ batchStart >= Len(uniqueDomains)
  /\ CleanedMulti(cleanMulti(applyMX(expandedData, "email", mxCache)))

\* what a parameter of updateProgress holds when the call does not pass it
Undefined == "undefined"

\* a variant that leaves the alternative-contact fields out; C21 tells it
\* from cleanDomainRow
cleanDomainRowWithoutPeer(row, websiteField) ==
  LET cleaned == Put(row, "cleaned_website", cleanWebsiteUrl(Get(row, websiteField)))
  IN  [k \in DOMAIN cleaned |-> trim(cleaned[k])]

\* one iteration of the inner loop of processDomainOnlyCSV
cleanDomainRow(row, websiteField) ==
  LET cleaned == withEmptyPeer(Put(row, "cleaned_website",
                                   cleanWebsiteUrl(Get(row, websiteField))))
  IN  [k \in DOMAIN cleaned |-> trim(cleaned[k])]

\* updateProgress(chunkEnd) after each chunk
domainProgress(n) ==
  [k \in 1..((n + domainChunkSize - 1) \div domainChunkSize) |->
     progress(min(k * domainChunkSize, n), Undefined, Undefined)]

\* processCSV for a domain-only file, up to its await: processDomainOnlyCSV
\* has no await, so it has returned its table
ProcessDomainOnly ==
  /\ pc = "pending"
  /\ csvFileType = "domain-only"
  /\ result' = [i \in 1..Len(csvData) |->
                  cleanDomainRow(csvData[i], mapped(mappedColumns, "website"))]
  /\ events' = events \o domainProgress(Len(csvData))
  /\ status' = "processing"
  /\ pc' = "returned"
  /\ UNCHANGED <<csvContent, csvHeaders, serialized, reparsed,
                 csvFileType, csvData, mappedColumns, filteredData, uniqueEmailData,
                 expandedData, uniqueDomains, batchStart, outstanding, lookups, mxCache,
                 processedData, filteredByDomain>>

\* a variant that lets a finished task start over; C25 tells it from
\* TaskComplete
TaskCompleteRestarting ==
  /\ pc \in {"returned", "done"}
  /\ status' = IF pc = "done" THEN "processing" ELSE "complete"
  /\ pc' = IF pc = "done" THEN "returned" ELSE "done"
  /\ UNCHANGED <<csvContent, csvHeaders, serialized, reparsed,
                 csvFileType, csvData, mappedColumns, filteredData, uniqueEmailData,
                 expandedData, uniqueDomains, batchStart, outstanding, lookups, mxCache,
                 processedData, filteredByDomain, result, events>>

\* a variant that leaves the status of the task as it is; C30 tells it
\* from TaskComplete
TaskCompleteWithoutStatus ==
  /\ pc = "returned"
  /\ pc' = "done"
  /\ UNCHANGED <<csvContent, csvHeaders, serialized, reparsed, status,
                 csvFileType, csvData, mappedColumns, filteredData, uniqueEmailData,
                 expandedData, uniqueDomains, batchStart, outstanding, lookups, mxCache,
                 processedData, filteredByDomain, result, events>>

\* processCSV after the await of a pipeline that returned without awaiting
\* anything itself: the task is marked complete and takes the returned table
TaskComplete ==
  /\ pc = "returned"
  /\ status' = "complete"
  /\ pc' = "done"
  /\ UNCHANGED <<csvContent, csvHeaders, serialized, reparsed,
                 csvFileType, csvData, mappedColumns, filteredData, uniqueEmailData,
                 expandedData, uniqueDomains, batchStart, outstanding, lookups, mxCache,
                 processedData, filteredByDomain, result, events>>

\* the catch of processCSV: the promise of the pipeline rejects and the task
\* is marked as failed, without a result. The pipelines throw nothing of
\* their own and catch what a lookup throws, so the exception is one the
\* runtime raises; it is taken on entry to processMXBatch
TaskError ==
  /\ pc = "mx"
  /\ batchStart = 0
  /\ lookups = <<>>
  /\ status' = "error"
  /\ pc' = "failed"
  /\ UNCHANGED <<csvContent, csvHeaders, serialized, reparsed,
                 csvFileType, csvData, mappedColumns, filteredData, uniqueEmailData,
                 expandedData, uniqueDomains, batchStart, outstanding, lookups, mxCache,
                 processedData, filteredByDomain, result, events>>

Next ==
  \/ ProcessDomainOnly
  \/ StartSingleEmail
  \/ StartMultiEmail
  \/ MXBatchIssue
  \/ MXBatchSettle
  \/ FinishSingleEmail
  \/ FinishMultiEmail
  \/ TaskComplete
  \/ TaskError

Spec == Init /\ [][Next]_vars

\* A step of Next other than TaskError, told by the position it leaves and
\* the position it reaches
Continue ==
  \/ pc = "pending" /\ pc' \in {"mx", "returned"}  \* ProcessDomainOnly, Start...
  \/ pc = "mx" /\ pc' \in {"lookup", "done"}       \* MXBatchIssue, Finish...
  \/ pc = "lookup" /\ pc' = "mx"                   \* MXBatchSettle
  \/ pc = "returned" /\ pc' = "done"               \* TaskComplete

\* The runs in which what is ready to run does run: the timer of
\* handleColumnsMapped fires, the event loop runs the continuation of an
\* await that has settled, and every lookup that was issued settles. A run
\* need not fail.
FairSpec == Spec /\ WF_pc(Continue)

\* ------------------------------------------------------------------------
\* Upload: parseCSV, dataToCSV, inferCSVType and FileUpload.processFile
\* ------------------------------------------------------------------------
\* parts.join(sep)
RECURSIVE join(_, _)
join(parts, sep) ==
  IF parts = <<>> THEN <<>>
  ELSE IF Len(parts) = 1 THEN parts[1]
  ELSE parts[1] \o sep \o join(Tail(parts), sep)

\* the character loop of parseCSV over one line, from position k on
RECURSIVE scanFields(_, _, _, _, _)
scanFields(line, k, inQuotes, field, fields) ==
  IF k > Len(line) THEN Append(fields, field)
  ELSE IF line[k] = "\"" THEN scanFields(line, k + 1, ~inQuotes, field, fields)
  ELSE IF line[k] = "," /\ ~inQuotes
    THEN scanFields(line, k + 1, inQuotes, <<>>, Append(fields, field))
  ELSE scanFields(line, k + 1, inQuotes, Append(field, line[k]), fields)

\* the row parseCSV makes of one data line: the scanned fields, or the plain
\* split when their number differs from the headers'; a header that occurs
\* twice keeps the field of its last occurrence. row is an object literal:
\* the assignment of a string to row['__proto__'] is ignored and leaves no
\* key
parseRow(headers, line, scanned) ==
  LET fields == IF Len(scanned) # Len(headers) THEN split(line, ",") ELSE scanned
  IN  [header \in {headers[i] : i \in 1..Len(headers)} \ {<<"_","_","p","r","o","t","o","_","_">>} |->
         LET index == CHOOSE i \in 1..Len(headers) :
                        /\ headers[i] = header
                        /\ \A j \in (i + 1)..Len(headers) : headers[j] # header
         IN  IF index <= Len(fields) THEN trim(fields[index]) ELSE <<>>]

\* the chunked loops of lines 62-100 visit every line after the first once,
\* in order
parseLines(lines) ==
  IF Len(lines) = 0 THEN [headers |-> <<>>, data |-> <<>>]
  ELSE LET cells == split(lines[1], ",")
           headers == [i \in 1..Len(cells) |-> trim(cells[i])]
       IN  [headers |-> headers,
            data |-> [j \in 1..(Len(lines) - 1) |->
                        parseRow(headers, lines[j + 1],
                                 scanFields(lines[j + 1], 1, FALSE, <<>>, <<>>))]]

parseCSV(csvString) ==
  parseLines(SelectSeq(split(csvString, "\n"), LAMBDA line : Len(trim(line)) > 0))

importantFields ==
  << <<"o","t","h","e","r","_","d","m","_","n","a","m","e">>,
     <<"o","t","h","e","r","_","d","m","_","e","m","a","i","l">>,
     <<"o","t","h","e","r","_","d","m","_","t","i","t","l","e">> >>

dataToCSV(headers, data) ==
  LET ensuredHeaders ==
        headers \o SelectSeq(importantFields,
                             LAMBDA f : \A i \in 1..Len(headers) : headers[i] # f)
      \* row['__proto__'] of a row without that key is Object.prototype,
      \* which join writes as [object Object]
      cell(row, header) ==
        LET value == IF header = <<"_","_","p","r","o","t","o","_","_">> /\ header \notin DOMAIN row
                       THEN <<"[","o","b","j","e","c","t"," ","O","b","j","e","c","t","]">>
                       ELSE Get(row, header)
        IN  IF includes(value, ",") \/ includes(value, "\"")
              THEN <<"\"">> \o join(split(value, "\""), <<"\"", "\"">>) \o <<"\"">>
              ELSE value
      dataRow(row) ==
        join([i \in 1..Len(ensuredHeaders) |-> cell(row, ensuredHeaders[i])], <<",">>)
  IN  join(<<join(ensuredHeaders, <<",">>)>> \o [i \in 1..Len(data) |-> dataRow(data[i])],
           <<"\n">>)

\* a variant that also counts a header in which email_<digits> is followed
\* by more text; C16 tells it from inferCSVType
inferCSVTypeUnanchored(headers) ==
  LET emailDigits(h) ==
        \E k \in 1..Len(h) : matchesAtCI(h, k, <<"e","m","a","i","l","_">>) /\ k + 6 <= Len(h)
                             /\ h[k + 6] \in Digits
      contains(h, term) == \E k \in 1..Len(h) : matchesAtCI(h, k, term)
  IN  IF Len(SelectSeq(headers, emailDigits)) >= 2 THEN "multi-email"
      ELSE IF \E i \in 1..Len(headers) : contains(headers[i], <<"e","m","a","i","l">>)
        THEN "single-email"
      ELSE IF \E i \in 1..Len(headers) :
                \E term \in {<<"w","e","b","s","i","t","e">>, <<"d","o","m","a","i","n">>, <<"u","r","l">>, <<"s","i","t","e">>} : contains(headers[i], term)
        THEN "domain-only"
      ELSE "unknown"

inferCSVType(headers) ==
  LET \* h.match(/email_\d+$/i)
      emailDigits(h) ==
        \E k \in 1..Len(h) : /\ matchesAtCI(h, k, <<"e","m","a","i","l","_">>)
                             /\ k + 6 <= Len(h)
                             /\ \A j \in (k + 6)..Len(h) : h[j] \in Digits
      \* h.toLowerCase().includes(term)
      contains(h, term) == \E k \in 1..Len(h) : matchesAtCI(h, k, term)
  IN  IF Len(SelectSeq(headers, emailDigits)) >= 2 THEN "multi-email"
      ELSE IF \E i \in 1..Len(headers) : contains(headers[i], <<"e","m","a","i","l">>)
        THEN "single-email"
      ELSE IF \E i \in 1..Len(headers) :
                \E term \in {<<"w","e","b","s","i","t","e">>, <<"d","o","m","a","i","n">>, <<"u","r","l">>, <<"s","i","t","e">>} : contains(headers[i], term)
        THEN "domain-only"
      ELSE "unknown"

\* The texts of the files: every text of up to MaxText characters over the
\* characters the parser tells apart, files of up to MaxHeaders headers
\* with or without one data line, and a file whose header is __proto__
MaxText == 4
MaxHeaders == 3
CsvAlphabet == {"a", ",", "\"", "\n", " "}
HeaderPool ==
  { <<"e","m","a","i","l">>, <<"E","m","a","i","l","_","1">>, <<"x","_","e","m","a","i","l","_","2","0">>, <<"e","m","a","i","l","_","2","b">>,
    <<"S","i","t","e">>, <<"d","o","m","a","i","n">>, <<"U","R","L">>, <<"n","a","m","e">> }
FileTexts ==
  UNION {[1..n -> CsvAlphabet] : n \in 0..MaxText}
  \cup {join(headers, <<",">>) \o tail :
          headers \in Tables(HeaderPool, MaxHeaders), tail \in {<<>>, <<"\n", "a">>}}
  \cup {<<"_","_","p","r","o","t","o","_","_">> \o <<"\n", "a">>}

\* the page before a file is chosen, and the text of the file that is read
UploadInit ==
  /\ csvContent \in FileTexts
  /\ csvHeaders = <<>>
  /\ csvData = <<>>
  /\ csvFileType = "unknown"
  /\ mappedColumns = [keys |-> <<>>, column |-> <<>>]
  /\ serialized = <<>>
  /\ reparsed = [headers |-> <<>>, data |-> <<>>]
  /\ status = "none"
  /\ pc = "reading"
  /\ filteredData = <<>>
  /\ uniqueEmailData = <<>>
  /\ expandedData = <<>>
  /\ uniqueDomains = <<>>
  /\ batchStart = 0
  /\ outstanding = {}
  /\ lookups = <<>>
  /\ mxCache = <<>>
  /\ processedData = <<>>
  /\ filteredByDomain = <<>>
  /\ result = <<>>
  /\ events = <<>>

\* reader.onload of processFile, and handleFileUploaded when the file is
\* passed on
FileRead(parsed) ==
  /\ IF Len(parsed.headers) = 0
       THEN pc' = "rejected" /\ UNCHANGED <<csvHeaders, csvData, csvFileType>>
       ELSE /\ csvHeaders' = parsed.headers
            /\ csvData' = parsed.data
            /\ csvFileType' = inferCSVType(parsed.headers)
            /\ pc' = "mapping"
  /\ UNCHANGED <<csvContent, serialized, reparsed, mappedColumns, status, filteredData,
                 uniqueEmailData, expandedData, uniqueDomains, batchStart, outstanding,
                 lookups, mxCache, processedData, filteredByDomain, result, events>>
ProcessFile == pc = "reading" /\ FileRead(parseCSV(csvContent))

\* dataToCSV applied to the uploaded table and its headers
Serialize ==
  /\ pc = "mapping"
  /\ serialized' = dataToCSV(csvHeaders, csvData)
  /\ pc' = "serialized"
  /\ UNCHANGED <<csvContent, csvHeaders, reparsed, csvFileType, csvData, mappedColumns,
                 status, filteredData, uniqueEmailData, expandedData, uniqueDomains,
                 batchStart, outstanding, lookups, mxCache, processedData,
                 filteredByDomain, result, events>>

\* parseCSV applied to the serialized text
Reparse ==
  /\ pc = "serialized"
  /\ reparsed' = parseCSV(serialized)
  /\ pc' = "reparsed"
  /\ UNCHANGED <<csvContent, csvHeaders, serialized, csvFileType, csvData, mappedColumns,
                 status, filteredData, uniqueEmailData, expandedData, uniqueDomains,
                 batchStart, outstanding, lookups, mxCache, processedData,
                 filteredByDomain, result, events>>

UploadNext ==
  \/ ProcessFile
  \/ Serialize
  \/ Reparse

UploadSpec == UploadInit /\ [][UploadNext]_vars


\* ------------------------------------------------------------------------
\* Properties of the deduplication and suppression stages
\* ------------------------------------------------------------------------

\* C1: after the deduplication step of processSingleEmailCSV, for every key
\* e (lower-cased, trimmed email) among the rows that passed the email
\* filter, exactly one surviving row has that key, and it is the earliest of
\* the rows with key e that have the maximum number of non-empty values.
\* Stated for the state the step leaves, at the first await of processMXBatch;
\* no later step writes filteredData or uniqueEmailData.
C1_DedupKeepsRichestEarliest ==
  (csvFileType = "single-email" /\ pc = "mx" /\ batchStart = 0) =>
    \A e \in {dedupKey(filteredData[i], mapped(mappedColumns, "email")) :
               i \in 1..Len(filteredData)} :
      LET same == {j \in 1..Len(filteredData) :
                     dedupKey(filteredData[j], mapped(mappedColumns, "email")) = e}
          filled == [j \in same |-> nonEmptyValues(filteredData[j])]
          most == CHOOSE n \in {filled[j] : j \in same} :
                    \A j \in same : filled[j] <= n
          richest == {j \in same : filled[j] = most}
          best == CHOOSE j \in richest : \A k \in richest : j <= k
          kept == {j \in 1..Len(uniqueEmailData) :
                     dedupKey(uniqueEmailData[j], mapped(mappedColumns, "email")) = e}
      IN  Cardinality(kept) = 1 /\ \A j \in kept : uniqueEmailData[j] = filteredData[best]

\* a later row with more non-empty values replaced an earlier row of its
\* key, and two rows of one key tied for the maximum
C1_Witness ==
  /\ csvFileType = "single-email" /\ pc = "mx" /\ batchStart = 0
  /\ \E i, j \in 1..Len(filteredData) :
       /\ i < j
       /\ dedupKey(filteredData[i], "email") = dedupKey(filteredData[j], "email")
       /\ nonEmptyValues(filteredData[j]) > nonEmptyValues(filteredData[i])
       /\ \E k \in 1..Len(filteredData) :
            /\ k > j
            /\ dedupKey(filteredData[k], "email") = dedupKey(filteredData[j], "email")
            /\ nonEmptyValues(filteredData[k]) = nonEmptyValues(filteredData[j])
            /\ filteredData[k] # filteredData[j]
       /\ \E u \in 1..Len(uniqueEmailData) : uniqueEmailData[u] = filteredData[j]

\* C2: in the returned table of either pipeline every row has a blank
\* cleaned_website or a cleaned_website that occurs in at most 6 rows of the
\* returned table.
C2_ReturnedDomainsWithinThreshold ==
  (pc = "done" /\ csvFileType # "domain-only") =>
    \A i \in 1..Len(result) :
      \/ ~nonBlank(Get(result[i], "cleaned_website"))
      \/ domainCount(result, result[i]["cleaned_website"]) <= 6

\* a domain of more than 6 rows was suppressed while rows of another domain
\* were returned
C2_Witness ==
  /\ pc = "done"
  /\ \E i \in 1..Len(processedData) :
       domainCount(processedData, Get(processedData[i], "cleaned_website")) > 6
  /\ \E i \in 1..Len(result) : nonBlank(Get(result[i], "cleaned_website"))

\* C3: the suppression stage removes a row if and only if its
\* cleaned_website is non-blank and occurs in more than 6 rows entering the
\* stage.
C3_SuppressionExactlyOverThreshold ==
  (pc = "done" /\ csvFileType # "domain-only") =>
    filteredByDomain =
      SelectSeq(processedData,
                LAMBDA row : ~(nonBlank(Get(row, "cleaned_website"))
                               /\ domainCount(processedData, row["cleaned_website"]) > 6))

\* ------------------------------------------------------------------------
\* Properties of the peer-assignment stage.  A valid candidate is a row with
\* a person name and a non-generic email (isValidContact); the candidates of
\* a row are the valid rows of its domain, in table order.
\* ------------------------------------------------------------------------

\* C4: in a domain group with N >= 2 valid candidates, the valid candidate at
\* position i of the order-preserved candidate list receives the name, email
\* and title of the valid candidate at position (i+1) mod N.
C4_RoundRobinAmongValid ==
  (pc = "done" /\ csvFileType # "domain-only") =>
    \A i \in 1..Len(filteredByDomain) :
      LET rows == filteredByDomain
          valid == {j \in 1..Len(rows) :
                      /\ grouped(rows[j]) /\ isValidContact(rows[j])
                      /\ rows[j]["cleaned_website"] = Get(rows[i], "cleaned_website")}
          after == {j \in valid : j > i}
          from == IF after # {} THEN after ELSE valid
          next == CHOOSE j \in from : \A k \in from : j <= k
      IN  (i \in valid /\ Cardinality(valid) >= 2) =>
            /\ Get(result[i], "other_dm_name")
                 = (IF csvFileType = "single-email" THEN otherDmNameSingle(rows[next])
                    ELSE otherDmNameMulti(rows[next]))
            /\ Get(result[i], "other_dm_email") = Get(rows[next], "email")
            /\ Get(result[i], "other_dm_title")
                 = (IF csvFileType = "single-email" THEN otherDmTitleSingle(rows[next])
                    ELSE Get(rows[next], "title"))

\* C5: in the output, every valid candidate of a domain group with at least
\* 2 valid candidates has a non-empty other_dm_name.
C5_EveryValidCandidateHasPeer ==
  (pc = "done" /\ csvFileType # "domain-only") =>
    \A i \in 1..Len(result) :
      LET valid == {j \in 1..Len(result) :
                      /\ grouped(result[j]) /\ isValidContact(result[j])
                      /\ result[j]["cleaned_website"] = Get(result[i], "cleaned_website")}
      IN  (i \in valid /\ Cardinality(valid) >= 2) =>
            Truthy(Get(result[i], "other_dm_name"))

\* C6: in every returned row with a non-empty other_dm_name, other_dm_email
\* is not the row's own email (trimmed, case-insensitively) and other_dm_name
\* is not the row's own person name.
C6_NoSelfAssignment ==
  (pc = "done" /\ csvFileType # "domain-only") =>
    \A i \in 1..Len(result) :
      Truthy(Get(result[i], "other_dm_name")) =>
        /\ trim(toLowerCase(Get(result[i], "other_dm_email")))
             # trim(toLowerCase(Get(result[i], "email")))
        /\ result[i]["other_dm_name"]
             # (IF csvFileType = "single-email" THEN otherDmNameSingle(result[i])
                ELSE otherDmNameMulti(result[i]))

\* C7: in the output no row's other_dm_email is a generic-mailbox address.
C7_NoGenericPeer ==
  (pc = "done" /\ csvFileType # "domain-only") =>
    \A i \in 1..Len(result) : ~isGenericEmail(Get(result[i], "other_dm_email"))

\* C8: in the output, every row of a domain group with 0 or 1 valid
\* candidates, and every row that is not itself a valid candidate, has empty
\* other_dm_name, other_dm_email and other_dm_title.
C8_NoPeerWithoutTwoValid ==
  (pc = "done" /\ csvFileType # "domain-only") =>
    \A i \in 1..Len(result) :
      LET valid == {j \in 1..Len(result) :
                      /\ grouped(result[j]) /\ isValidContact(result[j])
                      /\ result[j]["cleaned_website"] = Get(result[i], "cleaned_website")}
      IN  (Cardinality(valid) <= 1 \/ ~isValidContact(result[i])) =>
            /\ Get(result[i], "other_dm_name") = <<>>
            /\ Get(result[i], "other_dm_email") = <<>>
            /\ Get(result[i], "other_dm_title") = <<>>

\* C9: in the output no row has a non-empty other_dm_name that equals,
\* case-insensitively, the row's own company field or cleaned_company_name.
C9_PeerNameIsNotOwnCompany ==
  (pc = "done" /\ csvFileType # "domain-only") =>
    \A i \in 1..Len(result) :
      Truthy(Get(result[i], "other_dm_name")) =>
        /\ toLowerCase(result[i]["other_dm_name"]) # toLowerCase(Get(result[i], "company"))
        /\ toLowerCase(result[i]["other_dm_name"])
             # toLowerCase(Get(result[i], "cleaned_company_name"))

\* ------------------------------------------------------------------------
\* Properties of the returned column set
\* ------------------------------------------------------------------------

C11_StagesCompleteBeforeNext ==
  (pc = "done" /\ csvFileType # "domain-only") =>
    \A i \in 1..Len(events) :
      LET last == CHOOSE j \in i..Len(events) :
                    /\ events[j].stage = events[i].stage
                    /\ \A k \in (j + 1)..Len(events) : events[k].stage # events[i].stage
      IN  /\ events[last].processed = events[last].total
          /\ \A k \in i..last : events[k].stage = events[i].stage

\* C12: within each stage label the processed count of successive progress
\* events never decreases, and once an event of a later stage has been
\* emitted no event of an earlier stage is emitted again.
C12_ProgressMonotonicPerStage ==
  \* the events of a stage are adjacent: when the stage of event i occurs
  \* again later, event i + 1 is of that stage
  /\ \A i, j \in 1..Len(events) :
       (i < j /\ events[i].stage = events[j].stage) =>
         events[i + 1].stage = events[i].stage
  \* and within the stage the count does not fall from one event to the next
  /\ \A i \in 1..(Len(events) - 1) :
       events[i].stage = events[i + 1].stage =>
         events[i].processed <= events[i + 1].processed

\* a run whose lookups took two batches, each reported, and whose cleaning
\* was reported after its start
C12_Witness ==
  /\ pc = "done"
  /\ \E i, j \in 1..Len(events) :
       /\ i < j
       /\ events[i].stage = "Processing MX records"
       /\ events[j].stage = "Processing MX records"
       /\ 0 < events[i].processed
       /\ events[i].processed < events[j].processed
  /\ \E i \in 1..Len(events) :
       events[i].stage = "Cleaning data" /\ events[i].processed > 0

\* ------------------------------------------------------------------------
\* Properties of the MX lookups
\* ------------------------------------------------------------------------

\* C13: within one run at most one lookup is issued per domain string; a
\* domain the cache has resolved is not looked up again and keeps its
\* category; and all rows of one email domain are returned with the same
\* category.
C13_CacheDeterminism ==
  /\ [](\A i, j \in 1..Len(lookups) : i # j => lookups[i] # lookups[j])
  /\ []((pc = "done" /\ csvFileType # "domain-only") =>
          LET domainOf == [i \in 1..Len(result) |->
                             emailDomainPart(Get(result[i], "email"))]
          IN  \A d \in {domainOf[i] : i \in 1..Len(result)} :
                \A i, j \in {k \in 1..Len(result) : domainOf[k] = d} :
                  Get(result[i], "mx_provider") = Get(result[j], "mx_provider"))
  /\ [][\A d \in DOMAIN mxCache :
          Truthy(mxCache[d]) =>
            /\ d \in DOMAIN mxCache' /\ mxCache'[d] = mxCache[d]
            /\ \A k \in 1..Len(lookups') : lookups'[k] = d => k <= Len(lookups)]_vars

\* a run that looked domains up, found another of its domains resolved by
\* an earlier run, and returned two rows of one domain
C13_Witness ==
  /\ pc = "done"
  /\ Len(lookups) > 0
  /\ \E k \in 1..Len(uniqueDomains) :
       /\ \A i \in 1..Len(lookups) : lookups[i] # uniqueDomains[k]
       /\ uniqueDomains[k] \in DOMAIN EarlierCache
  /\ \E i, j \in 1..Len(result) :
       /\ i # j
       /\ Get(result[i], "mx_provider") = microsoft
       /\ emailDomainPart(Get(result[i], "email")) = emailDomainPart(Get(result[j], "email"))

\* C14: the unique domains are looked up in consecutive batches of at most
\* batchSize: the loop index advances by whole batches, the lookups that
\* have not settled are domains of the current batch only, none is
\* outstanding when the loop takes the next batch, and so never more than
\* batchSize lookups are outstanding.
C14_BatchesSequential ==
  /\ batchStart % batchSize = 0
  /\ Cardinality(outstanding) <= batchSize
  /\ pc # "lookup" => outstanding = {}
  /\ pc = "lookup" =>
       /\ batchStart < Len(uniqueDomains)
       /\ outstanding \subseteq
            {uniqueDomains[k] : k \in (batchStart + 1)..min(batchStart + batchSize,
                                                           Len(uniqueDomains))}
  /\ \A i \in 1..Len(lookups) :
       \E k \in 1..Len(uniqueDomains) :
         /\ uniqueDomains[k] = lookups[i]
         /\ k <= batchStart + batchSize
         /\ (k > batchStart => pc = "lookup" /\ lookups[i] \in outstanding)

\* the second batch is in flight after a full first batch has settled
C14_Witness ==
  /\ pc = "lookup"
  /\ batchStart = batchSize
  /\ Len(lookups) = batchSize + 1
  /\ Cardinality(outstanding) = 1

\* C15: a lookup that fails resolves its domain to 'other' and the run goes
\* on, and every row that leaves processMXBatch with a non-empty email
\* carries one of the categories google, microsoft, other as mx_provider.
C15_EveryRowHasCategory ==
  (pc = "done" /\ csvFileType # "domain-only") =>
    \A i \in 1..Len(processedData) :
      Truthy(Get(processedData[i], "email")) =>
        Get(processedData[i], "mx_provider") \in LookupOutcomes

\* ------------------------------------------------------------------------
\* Properties of the upload
\* ------------------------------------------------------------------------

\* C16: the type of an uploaded file follows a fixed precedence over its
\* headers: multi-email when two or more headers end in email_<digits>;
\* otherwise single-email when a header contains 'email' in any case;
\* otherwise domain-only when a header contains website, domain, url or
\* site in any case; otherwise unknown.
C16_TypePrecedence ==
  pc \in {"mapping", "serialized", "reparsed"} =>
    LET lower(i) == toLowerCase(csvHeaders[i])
        has(i, term) ==
          \E k \in 1..Len(csvHeaders[i]) :
            k + Len(term) - 1 <= Len(csvHeaders[i])
            /\ SubSeq(lower(i), k, k + Len(term) - 1) = term
        endsInEmailDigits(i) ==
          \E n \in 1..(Len(csvHeaders[i]) - 6) :
            /\ \A j \in (Len(csvHeaders[i]) - n + 1)..Len(csvHeaders[i]) :
                 csvHeaders[i][j] \in Digits
            /\ SubSeq(lower(i), Len(csvHeaders[i]) - n - 5, Len(csvHeaders[i]) - n) = <<"e","m","a","i","l","_">>
        suffixed == {i \in 1..Len(csvHeaders) : endsInEmailDigits(i)}
    IN  csvFileType =
          IF Cardinality(suffixed) >= 2 THEN "multi-email"
          ELSE IF \E i \in 1..Len(csvHeaders) : has(i, <<"e","m","a","i","l">>) THEN "single-email"
          ELSE IF \E i \in 1..Len(csvHeaders) :
                    \/ has(i, <<"w","e","b","s","i","t","e">>)
                    \/ has(i, <<"d","o","m","a","i","n">>)
                    \/ has(i, <<"u","r","l">>)
                    \/ has(i, <<"s","i","t","e">>)
            THEN "domain-only"
          ELSE "unknown"

\* a file with one header that ends in email_<digits> and one in which
\* email_<digits> is followed by a letter is taken as single-email
C16_Witness ==
  /\ pc = "mapping"
  /\ csvFileType = "single-email"
  /\ \E i, j \in 1..Len(csvHeaders) :
       /\ csvHeaders[i] = <<"E","m","a","i","l","_","1">>
       /\ csvHeaders[j] = <<"e","m","a","i","l","_","2","b">>

\* C17: a text with no line that is not blank, and a text with exactly one
\* such line (a header line without data), are both parsed to no headers
\* and no rows, so processFile passes neither on.
C17_HeaderOnlyIsEmpty ==
  (pc # "reading"
   /\ Len(SelectSeq(split(csvContent, "\n"), LAMBDA line : trim(line) # <<>>)) <= 1) =>
    /\ pc = "rejected"
    /\ csvHeaders = <<>>
    /\ csvData = <<>>

\* C18: the table parsed from the serialized text has the records of the
\* uploaded table: as many rows, and in each row the same value under every
\* header of the upload.
C18_RoundTrip ==
  pc = "reparsed" =>
    /\ Len(reparsed.data) = Len(csvData)
    /\ \A i \in 1..Len(csvData) :
         \A h \in 1..Len(csvHeaders) :
           i <= Len(reparsed.data) =>
             Get(reparsed.data[i], csvHeaders[h]) = Get(csvData[i], csvHeaders[h])

\* ------------------------------------------------------------------------
\* Properties of the multi-email pipeline
\* ------------------------------------------------------------------------

\* C19: the expansion yields one row for each email slot of a source row
\* whose value is non-empty and contains '@', and no other row; the row of
\* a slot has the trimmed address of the slot and the full name, first
\* name, last name and title of the columns mapped under that slot.
C19_OneRowPerPopulatedSlot ==
  (csvFileType = "multi-email" /\ pc # "pending") =>
    /\ Len(expandedData) =
         Cardinality({s \in (1..Len(csvData)) \X {"email_1", "email_2"} :
                        validEmail(Get(csvData[s[1]], s[2]))})
    /\ \A i \in 1..Len(expandedData) :
         \E slot \in {"email_1", "email_2"} :
           /\ expandedData[i]["_source_column"] = <<slot>>
           /\ validEmail(Get(expandedData[i], slot))
           /\ expandedData[i]["email"] = trim(Get(expandedData[i], slot))
           /\ expandedData[i]["fullName"] = Get(expandedData[i], slot \o "_full_name")
           /\ expandedData[i]["firstName"] = Get(expandedData[i], slot \o "_first_name")
           /\ expandedData[i]["lastName"] = Get(expandedData[i], slot \o "_last_name")
           /\ expandedData[i]["title"] = Get(expandedData[i], slot \o "_title")

\* C20: the table the multi-email pipeline returns holds no two rows with
\* the same lower-cased, trimmed email.
C20_MultiReturnsUniqueEmails ==
  (csvFileType = "multi-email" /\ pc = "done") =>
    \A i, j \in 1..Len(result) :
      i # j => toLowerCase(trim(Get(result[i], "email")))
                 # toLowerCase(trim(Get(result[j], "email")))

\* ------------------------------------------------------------------------
\* Properties of the domain-only pipeline and of the rows returned
\* ------------------------------------------------------------------------

\* C21: processDomainOnlyCSV returns one row per input row in the order of
\* the input: row i has the (trimmed) values of input row i, cleaned_website
\* and the three other_dm fields, all three empty; no row is dropped, no
\* lookup is issued and the cache is not written.
C21_DomainOnlyRowForRow ==
  (pc = "done" /\ csvFileType = "domain-only") =>
    /\ Len(result) = Len(csvData)
    /\ \A i \in 1..Len(csvData) :
         /\ DOMAIN result[i] = DOMAIN csvData[i] \cup {"cleaned_website", "other_dm_name",
                                                     "other_dm_email", "other_dm_title"}
         /\ \A k \in DOMAIN csvData[i] : result[i][k] = trim(csvData[i][k])
         /\ result[i]["cleaned_website"] = trim(cleanWebsiteUrl(Get(csvData[i], "website")))
         /\ result[i]["other_dm_name"] = <<>>
         /\ result[i]["other_dm_email"] = <<>>
         /\ result[i]["other_dm_title"] = <<>>
    /\ lookups = <<>> /\ outstanding = {} /\ mxCache = <<>>
    /\ uniqueDomains = <<>> /\ filteredByDomain = <<>> /\ processedData = <<>>

\* a domain-only run that returned two rows of the same website
C21_Witness ==
  /\ pc = "done" /\ csvFileType = "domain-only"
  /\ Len(result) = 3
  /\ result[1] = result[2]
  /\ result[1]["cleaned_website"] = <<"x",".","i","o">>
  /\ result[3]["cleaned_website"] = <<>>

\* C22: suppression counts rows by the canonical, lower-cased domain also
\* when the domain comes from the email: a row is returned only if at most
\* 6 of the rows that entered the filter have its domain in any letter case.
C22_CountsByCanonicalDomain ==
  (pc = "done" /\ csvFileType = "single-email") =>
    \A i \in 1..Len(result) :
      LET domain == Get(result[i], "cleaned_website")
      IN  Truthy(trim(domain)) =>
            Cardinality({j \in 1..Len(processedData) :
                           toLowerCase(Get(processedData[j], "cleaned_website"))
                             = toLowerCase(domain)}) <= DOMAIN_FREQUENCY_THRESHOLD

\* ------------------------------------------------------------------------
\* Properties of the progress reports and of the task
\* ------------------------------------------------------------------------

\* C23: every call of the progress callback, in every mode, passes a
\* processed count, a total and a stage label, and processed / total is a
\* number between 0 and 1.
C23_ProgressIsDefined ==
  \A i \in 1..Len(events) :
    /\ events[i].processed \in Nat
    /\ events[i].total \in Nat
    /\ events[i].stage # Undefined
    /\ events[i].total > 0
    /\ events[i].processed <= events[i].total

\* C24: the rows processSingleEmailCSV returns are, in their columns of the
\* input, rows of the input in the input's order: the returned table is an
\* order-preserving subsequence of the input.
C24_OutputIsSubsequence ==
  (pc = "done" /\ csvFileType = "single-email") =>
    LET source(i) == [k \in DOMAIN csvData[1] |-> result[i][k]]
        RECURSIVE embeds(_, _)
        \* the rows i.. of the result occur, in order, among the rows from.. of
        \* the input (each matched at its first occurrence)
        embeds(i, from) ==
          IF i > Len(result) THEN TRUE
          ELSE \E k \in from..Len(csvData) :
                 /\ csvData[k] = source(i)
                 /\ \A j \in from..(k - 1) : csvData[j] # source(i)
                 /\ embeds(i + 1, k + 1)
    IN  embeds(1, 1)

\* C25: the status of a task changes only from pending to processing and
\* from processing to complete or error; a task in error has no result, a
\* complete task of a pipeline that returned rows has them as its result,
\* and once complete or in error nothing of the task changes any more
C25_StatusLifecycle ==
  [][/\ status' # status =>
          <<status, status'>> \in {<<"pending", "processing">>,
                                  <<"processing", "complete">>,
                                  <<"processing", "error">>}
     /\ status \in {"complete", "error"} =>
          (status' = status /\ result' = result /\ events' = events)
     /\ status' = "error" => result' = <<>>
     /\ status' = "complete" =>
          (pc' = "done" /\ (csvFileType = "domain-only" => Len(result') = Len(csvData))
                       /\ (csvFileType # "domain-only" => Len(result') <= Len(filteredByDomain')))
     /\ status' = "pending" => result' = <<>>]_vars

C25_Witness ==
  /\ status = "error"
  /\ pc = "failed"
  /\ Len(events) > 0
  /\ Len(uniqueDomains) > 0
  /\ result = <<>>

\* C26: parseCSV never fails: the file is rejected only when it has no
\* line, every data line gives one record, every record has exactly the
\* header names as its keys, and a key holds the trimmed field of its column,
\* taken from the plain comma split when the quote-aware fields are not as
\* many as the headers, or the empty string when the line has no such field
C26_ParseTolerant ==
  pc \in {"rejected", "mapping", "serialized", "reparsed"} =>
    LET lines == SelectSeq(split(csvContent, "\n"), LAMBDA line : Len(trim(line)) > 0)
        fieldsOf(line) ==
          LET scanned == scanFields(line, 1, FALSE, <<>>, <<>>)
          IN  IF Len(scanned) # Len(csvHeaders) THEN split(line, ",") ELSE scanned
    IN  /\ pc = "rejected" <=> Len(lines) = 0
        /\ pc # "rejected" =>
              /\ Len(csvData) = Len(lines) - 1
              /\ \A i \in 1..Len(csvData) :
                   /\ DOMAIN csvData[i] = {csvHeaders[k] : k \in 1..Len(csvHeaders)}
                   /\ \A k \in 1..Len(csvHeaders) :
                        (\A j \in (k + 1)..Len(csvHeaders) : csvHeaders[j] # csvHeaders[k]) =>
                          csvData[i][csvHeaders[k]] =
                            IF k <= Len(fieldsOf(lines[i + 1]))
                              THEN trim(fieldsOf(lines[i + 1])[k]) ELSE <<>>

\* C27: cleaning a cleaned company name changes nothing: the
\* cleaned_company_name of every row is a fixed point of cleanCompanyName
C27_CompanyNameIdempotent ==
  \A i \in 1..Len(processedData) :
    "cleaned_company_name" \in DOMAIN processedData[i] =>
      cleanCompanyName(processedData[i]["cleaned_company_name"])
        = processedData[i]["cleaned_company_name"]

\* C28: in the table an email pipeline returns, a row with a non-empty
\* other_dm_email names the email of another returned row of the same
\* cleaned_website
C28_PeerIsReturnedRow ==
  (pc = "done" /\ csvFileType # "domain-only") =>
    \A i \in 1..Len(result) :
      Get(result[i], "other_dm_email") # <<>> =>
        \E j \in 1..Len(result) :
          /\ j # i
          /\ Get(result[j], "email") = Get(result[i], "other_dm_email")
          /\ Get(result[j], "cleaned_website") = Get(result[i], "cleaned_website")

C28_Witness ==
  /\ pc = "done"
  /\ csvFileType = "multi-email"
  /\ Len(result) < Len(expandedData)
  /\ \E i, j \in 1..Len(result) :
       /\ Get(result[i], "other_dm_email") # <<>>
       /\ Get(result[j], "cleaned_website") \notin {<<>>, Get(result[i], "cleaned_website")}

\* C29: when an email pipeline has returned, the last progress event is
\* (n, n, 'Complete') for the n rows it returned
C29_LastEventIsComplete ==
  (pc \in {"returned", "done"} /\ csvFileType # "domain-only") =>
    /\ Len(events) > 0
    /\ events[Len(events)] = progress(Len(result), Len(result), "Complete")

\* C30: when every lookup that was issued settles, every run of a pipeline
\* returns or fails, and the task that started it becomes complete or error
C30_Termination ==
  <>(pc \in {"done", "failed"} /\ status \in {"complete", "error"})

C30_Witness ==
  /\ pc = "done"
  /\ status = "complete"
  /\ batchStart > batchSize
  /\ Len(lookups) > batchSize

====
